---- MODULE Spec2Model ----
(***************************************************************************)
(* Model of the reconciliation engine of rag_mars_tourism: the scan of the *)
(* data directory (src/db_handling/indexing.py, parsing.py, hashing.py),   *)
(* the ChromaDB collection as seen through chroma_utils.py, and the        *)
(* synchronization run synchronize_vector_db.                              *)
(*                                                                         *)
(* Text is a sequence of one-character strings, so that strip(),           *)
(* endswith() and concatenation are computed and not assumed.              *)
(***************************************************************************)
EXTENDS Integers, Sequences, FiniteSets, TLC

VARIABLES
    dirExists,        \* os.path.isdir(config.DATA_DIR)
    files,            \* os.listdir(config.DATA_DIR), in listing order
    store,            \* the documents of the Chroma collection
    pc,               \* position of the run inside synchronize_vector_db
    idx,              \* index of the next directory entry of _process_all_files
    all_qna_data,     \* _scan_data_dir_for_qna: qna_hash -> metadata
    stats,            \* _initialize_stats / _update_stats
    file_hashes,      \* current_qna_hashes_in_files
    db_map,           \* qna_hash_to_id_in_db
    db_hashes,        \* qna_hashes_in_db
    hashes_to_add,    \* _sync_db_with_files
    hashes_to_delete, \* _sync_db_with_files
    calls,            \* the calls of this run that reach the store, in order
    reports,          \* what this run logged, in order (see Level)
    outcome,          \* what the caller of synchronize_vector_db observes
    store0,           \* the collection as it was when the run began
    last,             \* how the previous run over this same corpus ended
    faults,           \* failures the store may still produce (SpecHeal)
    actions,          \* MyLogger.actions: the names of the open actions
    logger_call,      \* the last call of MyLogger.start or close, and its return
    other,            \* a second run of the program on the same collection
    app               \* main.py: where it is, and run_streamlit_app

vars == <<dirExists, files, store, pc, idx, all_qna_data, stats, file_hashes,
          db_map, db_hashes, hashes_to_add, hashes_to_delete, calls, reports,
          outcome, store0, last, faults, actions, logger_call, other,
          app>>

-----------------------------------------------------------------------------
(* Bounds of the model.                                                     *)

\* directory entries in the data directory
MaxFiles == 2
\* failures of store calls in a behaviour of SpecHeal
MaxFaults == 2

-----------------------------------------------------------------------------
(* Text.                                                                    *)

IsSpace(c) == c \in {" ", "\t"}

RECURSIVE lstrip(_)
lstrip(s) == IF s # <<>> /\ IsSpace(Head(s)) THEN lstrip(Tail(s)) ELSE s

RECURSIVE rstrip(_)
rstrip(s) ==
    IF s # <<>> /\ IsSpace(s[Len(s)]) THEN rstrip(SubSeq(s, 1, Len(s) - 1)) ELSE s

\* str.strip()
strip(s) == rstrip(lstrip(s))

\* str.endswith(suffix)
endswith(s, suffix) ==
    /\ Len(s) >= Len(suffix)
    /\ SubSeq(s, Len(s) - Len(suffix) + 1, Len(s)) = suffix

LowerChar(c) ==
    CASE c = "T" -> "t"
      [] c = "X" -> "x"
      [] c = "A" -> "a"
      [] c = "B" -> "b"
      [] OTHER -> c

\* str.lower()
lower(s) == [i \in 1..Len(s) |-> LowerChar(s[i])]

-----------------------------------------------------------------------------
(* hashing.py                                                               *)

\* A faulty variant: the answer is left out of the digest.
generate_qna_hash_question_only(question, answer) == question

\* A faulty variant: a separator is hashed between question and answer.
generate_qna_hash_separated(question, answer) == question \o <<"|">> \o answer

\* hashlib.sha256 over the bytes of the question followed by the bytes of
\* the answer.  The digest is modelled as injective on the byte stream that
\* the two update() calls accumulate; the stream itself stands for it.
generate_qna_hash(question, answer) == question \o answer

-----------------------------------------------------------------------------
(* parsing.py                                                               *)

\* _read_and_clean_lines: the stripped, non-empty lines; [] when open() or
\* the read raises.
read_and_clean_lines(f) ==
    IF ~f.readable THEN <<>>
    ELSE SelectSeq([i \in 1..Len(f.lines) |-> strip(f.lines[i])],
                   LAMBDA l : l # <<>>)

\* _validate_question
validate_question(question) == endswith(question, <<"?">>)

\* A faulty variant: a pair whose question is invalid is passed over and
\* the loop goes on.
RECURSIVE parse_pairs_skipping(_, _)
parse_pairs_skipping(lines, i) ==
    IF i + 1 > Len(lines) THEN <<>>
    ELSE IF ~validate_question(lines[i]) THEN parse_pairs_skipping(lines, i + 2)
    ELSE IF lines[i] # <<>> /\ lines[i + 1] # <<>>
         THEN << <<lines[i], lines[i + 1]>> >> \o parse_pairs_skipping(lines, i + 2)
         ELSE parse_pairs_skipping(lines, i + 2)

\* _parse_qna_pairs: the loop over range(0, len(lines) - 1, 2), from the
\* 1-based position i, with its break at the first invalid question.
RECURSIVE parse_pairs_from(_, _)
parse_pairs_from(lines, i) ==
    IF i + 1 > Len(lines) THEN <<>>
    ELSE IF ~validate_question(lines[i]) THEN <<>>
    ELSE IF lines[i] # <<>> /\ lines[i + 1] # <<>>
         THEN << <<lines[i], lines[i + 1]>> >> \o parse_pairs_from(lines, i + 2)
         ELSE parse_pairs_from(lines, i + 2)

parse_qna_pairs(lines) == parse_pairs_from(lines, 1)

\* the subject of a file with no line
None == <<"<None>">>

\* _extract_subject
extract_subject(cleaned) == IF cleaned = <<>> THEN None ELSE cleaned[1]

\* A faulty variant: a file without pairs loses its subject too.
extract_qna_data_no_subject(cleaned) ==
    LET subject == extract_subject(cleaned) IN
    IF subject = None \/ subject = <<>> \/ Len(cleaned) < 3
    THEN [subject |-> None, qna_pairs |-> <<>>]
    ELSE [subject |-> subject, qna_pairs |-> parse_qna_pairs(Tail(cleaned))]

\* _extract_qna_data
extract_qna_data(cleaned) ==
    LET subject == extract_subject(cleaned) IN
    IF subject = None \/ subject = <<>> \/ Len(cleaned) < 3
    THEN [subject |-> subject, qna_pairs |-> <<>>]
    ELSE [subject |-> subject, qna_pairs |-> parse_qna_pairs(Tail(cleaned))]

\* parse_faq_file
parse_faq_file(f) ==
    LET cleaned == read_and_clean_lines(f) IN
    IF cleaned = <<>> THEN [subject |-> None, qna_pairs |-> <<>>]
    ELSE extract_qna_data(cleaned)

-----------------------------------------------------------------------------
(* indexing.py: the scan of the data directory.                             *)

EmptyMap == [h \in {} |-> {}]

Put(m, k, v) == [x \in DOMAIN m \cup {k} |-> IF x = k THEN v ELSE m[x]]

Report(kind) == [kind |-> kind, qna_hash |-> <<>>, new |-> <<>>, existing |-> <<>>]

\* _log_duplicate: the hash, the file of the rejected record and the file of
\* the record already held.
log_duplicate(qna_hash, filename, existing_meta) ==
    [kind |-> "duplicate", qna_hash |-> qna_hash, new |-> filename,
     existing |-> existing_meta.file_path]

Unknown == <<"U", "n", "k", "n", "o", "w", "n">>

Metadata(filepath, subject, question, answer) ==
    [file_path |-> filepath,
     subject   |-> IF subject = None \/ subject = <<>> THEN Unknown ELSE subject,
     question  |-> question,
     answer    |-> answer]

\* A faulty variant: a record whose hash is already held replaces the held one.
add_qna_pair_overwrite(acc, filepath, subject, question, answer) ==
    LET qna_hash == generate_qna_hash(question, answer) IN
    [acc EXCEPT !.data = Put(@, qna_hash,
                             Metadata(filepath, subject, question, answer))]

\* A faulty variant: the subject takes part in the key of the record.
add_qna_pair_keyed_by_subject(acc, filepath, subject, question, answer) ==
    LET qna_hash == generate_qna_hash(subject \o question, answer) IN
    IF qna_hash \in DOMAIN acc.data
    THEN [acc EXCEPT !.dupes = @ + 1,
                     !.log = Append(@, log_duplicate(qna_hash, filepath,
                                                     acc.data[qna_hash]))]
    ELSE [acc EXCEPT !.data = Put(@, qna_hash,
                                  Metadata(filepath, subject, question, answer))]

\* The body of the loop of _add_qna_pairs, on acc = [data, dupes, log].
add_qna_pair(acc, filepath, subject, question, answer) ==
    LET qna_hash == generate_qna_hash(question, answer) IN
    IF qna_hash \in DOMAIN acc.data
    THEN [acc EXCEPT !.dupes = @ + 1,
                     !.log = Append(@, log_duplicate(qna_hash, filepath,
                                                     acc.data[qna_hash]))]
    ELSE [acc EXCEPT !.data = Put(@, qna_hash,
                                  Metadata(filepath, subject, question, answer))]

RECURSIVE add_pairs_from(_, _, _, _, _)
add_pairs_from(acc, filepath, subject, qna_pairs, k) ==
    IF k > Len(qna_pairs) THEN acc
    ELSE add_pairs_from(
             add_qna_pair(acc, filepath, subject, qna_pairs[k][1], qna_pairs[k][2]),
             filepath, subject, qna_pairs, k + 1)

\* _add_qna_pairs: (True, duplicate_qna_hashes, len(qna_pairs), 1) and the
\* dictionary it has filled.
add_qna_pairs(filepath, subject, qna_pairs, data) ==
    LET acc == add_pairs_from([data |-> data, dupes |-> 0, log |-> <<>>],
                              filepath, subject, qna_pairs, 1)
    IN [ok |-> TRUE, data |-> acc.data, dupes |-> acc.dupes,
        total |-> Len(qna_pairs), processed |-> 1, log |-> acc.log]

\* _is_valid_qna_file
is_valid_qna_file(subject, qna_pairs) ==
    IF subject = None /\ qna_pairs = <<>> THEN FALSE
    ELSE IF qna_pairs = <<>> THEN FALSE
    ELSE TRUE

\* What _parse_qna_pairs logs in its loop, from the 1-based position i: the
\* two warnings of an invalid question, the warning of an empty member.
RECURSIVE parse_pairs_log(_, _)
parse_pairs_log(lines, i) ==
    IF i + 1 > Len(lines) THEN <<>>
    ELSE IF ~validate_question(lines[i])
         THEN <<Report("invalid_question"), Report("stopping")>>
    ELSE IF lines[i] # <<>> /\ lines[i + 1] # <<>>
         THEN parse_pairs_log(lines, i + 2)
         ELSE <<Report("empty_pair")>> \o parse_pairs_log(lines, i + 2)

\* A faulty variant: the unpaired last content line is dropped silently.
parse_qna_pairs_log_silent(lines) == parse_pairs_log(lines, 1)

\* What _parse_qna_pairs logs: its loop, then the warning of an unpaired
\* last content line when len(lines) is odd.
parse_qna_pairs_log(lines) ==
    parse_pairs_log(lines, 1)
        \o (IF Len(lines) % 2 # 0 THEN <<Report("unpaired_line")>> ELSE <<>>)

\* What _extract_qna_data logs, _extract_subject included.
extract_qna_data_log(cleaned) ==
    LET subject == extract_subject(cleaned) IN
    (IF cleaned = <<>> THEN <<Report("empty_file")>> ELSE <<>>)
        \o (IF subject = None \/ subject = <<>> \/ Len(cleaned) < 3
            THEN <<Report("subject_no_pairs")>>
            ELSE parse_qna_pairs_log(Tail(cleaned)))

\* What parse_faq_file logs at WARNING and above, _read_and_clean_lines
\* included.
parse_faq_file_log(f) ==
    LET cleaned == read_and_clean_lines(f) IN
    (IF f.readable THEN <<>> ELSE <<Report("read_error")>>)
        \o (IF cleaned = <<>> THEN <<Report("no_content")>>
            ELSE extract_qna_data_log(cleaned)
                    \o (IF extract_qna_data(cleaned).qna_pairs = <<>>
                           /\ Len(cleaned) >= 3
                        THEN <<Report("no_valid_pairs")>> ELSE <<>>))

\* What _is_valid_qna_file logs at WARNING and above.
is_valid_qna_file_log(subject, qna_pairs) ==
    IF subject = None /\ qna_pairs = <<>>
    THEN <<Report("no_subject_or_qna")>> ELSE <<>>

\* _process_single_file; ok = FALSE stands for the None it returns.
process_single_file(f, data) ==
    LET parsed == parse_faq_file(f)
        parse_log == parse_faq_file_log(f)
                        \o is_valid_qna_file_log(parsed.subject, parsed.qna_pairs)
    IN IF ~is_valid_qna_file(parsed.subject, parsed.qna_pairs)
       THEN [ok |-> FALSE, data |-> data, dupes |-> 0, total |-> 0,
             processed |-> 0, log |-> parse_log]
       ELSE LET added == add_qna_pairs(f.name, parsed.subject, parsed.qna_pairs, data)
            IN [added EXCEPT !.log = parse_log \o @]

\* A faulty variant: the suffix is compared as it is written.
should_skip_file_case_sensitive(f) ==
    ~f.isfile \/ ~endswith(f.name, <<".", "t", "x", "t">>)

\* _should_skip_file
should_skip_file(f) ==
    ~f.isfile \/ ~endswith(lower(f.name), <<".", "t", "x", "t">>)

\* _initialize_stats
initialize_stats ==
    [files_processed |-> 0, files_skipped_error |-> 0,
     total_qna_pairs |-> 0, duplicate_qna_hashes |-> 0]

\* A faulty variant: a file that gave no result is not counted.
update_stats_uncounted(st, result) ==
    IF result.ok
    THEN [st EXCEPT !.total_qna_pairs = @ + result.total,
                    !.duplicate_qna_hashes = @ + result.dupes,
                    !.files_processed = @ + result.processed]
    ELSE st

\* _update_stats, and the else branch of _process_all_files
update_stats(st, result) ==
    IF result.ok
    THEN [st EXCEPT !.total_qna_pairs = @ + result.total,
                    !.duplicate_qna_hashes = @ + result.dupes,
                    !.files_processed = @ + result.processed]
    ELSE [st EXCEPT !.files_skipped_error = @ + 1]

-----------------------------------------------------------------------------
(* chroma_utils.py, indexing_helpers.py: the collection.                    *)

\* a document whose metadata carries no qna_hash
NoHash == <<>>

\* the qna_hash values the documents of the collection carry
StoreKeys(st) == {d.qna_hash : d \in st} \ {NoHash}

\* A faulty variant: a document without qna_hash is collected under the
\* value it lacks.
get_all_qna_hashes_with_missing(st) ==
    {m \in [{d.qna_hash : d \in st} -> {d.id : d \in st}] :
        \A h \in {d.qna_hash : d \in st} :
            \E d \in st : d.qna_hash = h /\ d.id = m[h]}

\* get_all_qna_hashes_from_db, when count() and get() succeed: the maps from
\* qna_hash to the id of a document that carries it.  With several documents
\* for one hash the last one of get() is kept, and get() fixes no order.
get_all_qna_hashes_from_db(st) ==
    {m \in [StoreKeys(st) -> {d.id : d \in st}] :
        \A h \in StoreKeys(st) : \E d \in st : d.qna_hash = h /\ d.id = m[h]}

\* A faulty variant: the where filter matches nothing.
collection_delete_nothing(st, qna_hashes_to_delete) == st

\* collection.delete(where={"qna_hash": {"$in": [...]}})
collection_delete(st, qna_hashes_to_delete) ==
    {d \in st : d.qna_hash \notin qna_hashes_to_delete}

\* the ways a call of delete_documents_by_qna_hash can go
DeleteResults == {"ok", "count_raises", "delete_raises", "recount_raises"}

\* A faulty variant: the empty set is not returned upon at once.
delete_documents_unguarded(st, qna_hashes_to_delete, res) ==
    [store |-> IF res \in {"ok", "recount_raises"}
               THEN collection_delete(st, qna_hashes_to_delete) ELSE st,
     touched |-> TRUE,
     raises |-> res = "count_raises",
     log |-> IF res \in {"delete_raises", "recount_raises"}
             THEN <<Report("delete_error")>> ELSE <<>>]

\* delete_documents_by_qna_hash: the collection after it, whether it called
\* the collection, whether it raises and what it logs.  With the empty set
\* it returns at once.  Else the count() before the try raises out of the
\* function; collection.delete raising is caught and logged; the count()
\* after the delete raising is caught and logged too, with the documents
\* already gone.
delete_documents_by_qna_hash(st, qna_hashes_to_delete, res) ==
    IF qna_hashes_to_delete = {}
    THEN [store |-> st, touched |-> FALSE, raises |-> FALSE, log |-> <<>>]
    ELSE [store |-> IF res \in {"ok", "recount_raises"}
                    THEN collection_delete(st, qna_hashes_to_delete) ELSE st,
          touched |-> TRUE,
          raises |-> res = "count_raises",
          log |-> IF res \in {"delete_raises", "recount_raises"}
                  THEN <<Report("delete_error")>> ELSE <<>>]

\* A faulty variant: the document is stored without its qna_hash.
create_document_without_hash(metadata, qna_hash) ==
    [id |-> qna_hash, qna_hash |-> NoHash, file_path |-> metadata.file_path,
     subject |-> metadata.subject, question |-> metadata.question]

\* create_document_from_qna: id_ and metadata of the Document
create_document_from_qna(metadata, qna_hash) ==
    [id |-> qna_hash, qna_hash |-> qna_hash, file_path |-> metadata.file_path,
     subject |-> metadata.subject, question |-> metadata.question]

\* prep_for_adding_docs: the documents built for the hashes that have metadata
documents_to_insert(to_add, qna_data_from_files) ==
    {create_document_from_qna(qna_data_from_files[h], h) :
        h \in to_add \cap DOMAIN qna_data_from_files}

\* A faulty variant: a document whose id is held is stored under a new id.
insert_nodes_under_new_id(st, documents) ==
    st \cup {IF n.id \in {d.id : d \in st} THEN [n EXCEPT !.id = Append(@, "'")]
             ELSE n : n \in documents}

\* index.insert_nodes, which ends in collection.add: a document is stored
\* under its id, and an id the collection already holds is left as it is.
insert_nodes(st, documents) ==
    st \cup {n \in documents : n.id \notin {d.id : d \in st}}

\* A faulty variant: a failed insert is tried again until it succeeds.
insert_documents_retried(st, documents, ok) ==
    [store |-> insert_nodes(st, documents), success |-> TRUE,
     touched |-> documents # {}]

\* insert_documents_to_index: the collection after it, the bool it returns
\* and whether it called the index; ok is whether index.insert_nodes returned
\* or raised.  A batch of the size modelled is one collection.add, which
\* stores all of it or none.
insert_documents_to_index(st, documents, ok) ==
    IF documents = {} THEN [store |-> st, success |-> TRUE, touched |-> FALSE]
    ELSE IF ok THEN [store |-> insert_nodes(st, documents), success |-> TRUE,
                     touched |-> TRUE]
    ELSE [store |-> st, success |-> FALSE, touched |-> TRUE]

\* A faulty variant: every hash of the files is marked for addition.
diff_to_add_all(fh, dh) == fh

\* hashes_to_add = file_hashes - db_hashes
diff_to_add(fh, dh) == fh \ dh

\* A faulty variant: every hash of the database is marked for deletion.
diff_to_delete_all(fh, dh) == dh

\* hashes_to_delete = db_hashes - file_hashes
diff_to_delete(fh, dh) == dh \ fh

-----------------------------------------------------------------------------
(* The inputs: the files of the data directory and the collection a run    *)
(* may find.                                                                *)

Subject == <<"S">>
Q1 == <<"A", "?">>
A1 == <<"B">>
Q2 == <<"C", "?">>
A2 == <<"D">>
\* a pair no file holds any more
Q3 == <<"E", "?">>
A3 == <<"F">>

\* The file contents the runs are checked on: the empty file, a subject
\* alone, and a subject followed by one pair, by two pairs in either order,
\* and by the same pair twice.
Texts ==
    {<<>>,
     <<Subject>>,
     <<Subject, Q1, A1>>,
     <<Subject, Q2, A2>>,
     <<Subject, Q1, A1, Q2, A2>>,
     <<Subject, Q2, A2, Q1, A1>>,
     <<Subject, Q1, A1, Q1, A1>>}

Bodies ==
    {[readable |-> TRUE, lines |-> t] : t \in Texts}
        \cup {[readable |-> FALSE, lines |-> <<>>]}

\* "fi.txt", "fii.TXT", "fiii.txt", ...
NameOf(i) ==
    <<"f">> \o [j \in 1..i |-> "i"]
        \o (IF i % 2 = 1 THEN <<".", "t", "x", "t">> ELSE <<".", "T", "X", "T">>)

Corpora ==
    UNION {{[i \in 1..n |-> [name |-> NameOf(i), isfile |-> TRUE,
                             readable |-> b[i].readable, lines |-> b[i].lines]]
               : b \in [1..n -> Bodies]}
           : n \in 0..MaxFiles}

OldName == <<"o", ".", "t", "x", "t">>
OldSubject == <<"O">>

\* documents earlier runs of the program wrote (their id is their qna_hash),
\* and documents written by other means: a second document for the hash of
\* the first pair, and one whose metadata has no qna_hash.
ProgramDocs ==
    {create_document_from_qna(Metadata(OldName, OldSubject, Q1, A1),
                              generate_qna_hash(Q1, A1)),
     create_document_from_qna(Metadata(NameOf(1), Subject, Q2, A2),
                              generate_qna_hash(Q2, A2)),
     create_document_from_qna(Metadata(OldName, OldSubject, Q3, A3),
                              generate_qna_hash(Q3, A3))}

ForeignDocs ==
    {[id |-> <<"x">>, qna_hash |-> generate_qna_hash(Q1, A1),
      file_path |-> OldName, subject |-> OldSubject, question |-> Q1],
     [id |-> <<"y">>, qna_hash |-> NoHash,
      file_path |-> OldName, subject |-> OldSubject, question |-> Q3]}

InitialStores == SUBSET (ProgramDocs \cup ForeignDocs)

-----------------------------------------------------------------------------
(* logger.py: the stack of open actions of MyLogger.                        *)

\* no call of start or close was made yet
NoCall == [op |-> "none", action |-> "", top |-> "", returned |-> "", logged |-> ""]

\* MyLogger.start(action): the stack after it and what is logged
start(stack, action) ==
    [actions |-> Append(stack, action), returned |-> "None", logged |-> "info_open"]

\* MyLogger.close(action): the stack after it, the action it returns ("None"
\* for (None, None)) and what it logs.  The tuple assignment of
\* self.actions.pop() binds the name action anew, to the action popped, so
\* that the comparison which follows has the popped action on both sides.
close(stack, action) ==
    IF stack = <<>>
    THEN [actions |-> stack, returned |-> "None", logged |-> "warning_no_action"]
    ELSE LET popped == stack[Len(stack)]
             rest == SubSeq(stack, 1, Len(stack) - 1)
             rebound == popped
         IN IF rebound # popped
            THEN [actions |-> rest, returned |-> "None",
                  logged |-> "warning_mismatch"]
            ELSE [actions |-> rest, returned |-> rebound, logged |-> "info_close"]

\* the actions of a run, by the names the functions give them
APP_ACTION == "MAIN"

\* main.py before it calls synchronize_vector_db: logger.start(APP_ACTION)
\* on the logger every module shares
MainStack == start(<<>>, APP_ACTION).actions

\* the stack in _synchronize_qnas, between the calls it makes
SyncStack == start(MainStack, "SYNC").actions

\* a function that starts its action, and closes it in a finally clause or
\* on its one return
started_and_closed(stack, action) == close(start(stack, action).actions, action).actions

\* the stack after get_all_qna_hashes_from_db: of an empty collection the
\* function closes its action before it returns {}, inside the try, and the
\* finally clause closes once more
retrieve_actions(stack, st, ok) ==
    LET opened == start(stack, "RETRIEVE").actions
        closed == IF ok /\ st = {} THEN close(opened, "RETRIEVE").actions ELSE opened
    IN close(closed, "RETRIEVE").actions

\* the stack after delete_documents_by_qna_hash: the action is started after
\* the test of the empty set and closed in the finally clause of the try,
\* which the first count() comes before
delete_documents_actions(stack, qna_hashes_to_delete, res) ==
    IF qna_hashes_to_delete = {} THEN stack
    ELSE LET opened == start(stack, "DELETE").actions
         IN IF res = "count_raises" THEN opened
            ELSE close(opened, "DELETE").actions

\* no second run of the program
NoOther == [pc |-> "none", all_qna_data |-> <<>>, file_hashes |-> {},
            db_hashes |-> {}, hashes_to_add |-> {}, hashes_to_delete |-> {}]

\* main.py in its call of indexing.synchronize_vector_db: no Streamlit
\* process, no check of the server made, the browser not opened
AppInit == [pc |-> "sync", popen |-> "none", attempt |-> 0, reachable |-> FALSE,
            browser |-> "none", closed |-> 0, popped |-> "None"]

-----------------------------------------------------------------------------
(* The run: synchronize_vector_db and what it calls.                        *)

Call(op, res) == [op |-> op, res |-> res]

Failed(cs, op) == \E i \in 1..Len(cs) : cs[i].op = op /\ cs[i].res # "ok"

Called(cs, op) == \E i \in 1..Len(cs) : cs[i].op = op

NoFailure(cs) == \A i \in 1..Len(cs) : cs[i].res = "ok"

Reported(rs, kind) == \E i \in 1..Len(rs) : rs[i].kind = kind

\* the level a report is logged at
Level(kind) ==
    CASE kind = "critical" -> "CRITICAL"
      [] kind \in {"dir_missing", "read_error", "enumerate_error", "delete_error",
                   "insert_raised", "insert_failed", "internal_inconsistency"} -> "ERROR"
      [] kind \in {"final_stats", "no_changes", "verify_ok"} -> "INFO"
      [] OTHER -> "WARNING"

\* How a finished run ended, for the run that follows it over the same
\* files: every call succeeded, or a delete or an insert failed and left the
\* keys of the collection different from the keys of the files.
Ending ==
    IF NoFailure(calls) THEN "clean"
    ELSE IF (Failed(calls, "delete") \/ Failed(calls, "insert"))
            /\ StoreKeys(store) # file_hashes THEN "broken"
    ELSE "other"

\* A call that leaves the program: it succeeds, or it fails.  With budgeted
\* the failures of a behaviour are counted down from MaxFaults.
Fault(failed, budgeted) ==
    IF failed /\ budgeted THEN faults > 0 /\ faults' = faults - 1
    ELSE faults' = faults

RunLocalsReset ==
    /\ idx' = 1
    /\ all_qna_data' = EmptyMap
    /\ stats' = initialize_stats
    /\ file_hashes' = {}
    /\ db_map' = EmptyMap
    /\ db_hashes' = {}
    /\ hashes_to_add' = {}
    /\ hashes_to_delete' = {}
    /\ reports' = <<>>
    /\ outcome' = "running"

Init ==
    /\ dirExists \in BOOLEAN
    /\ files \in Corpora
    /\ ~dirExists => files = <<>>
    /\ store \in InitialStores
    /\ pc = "idle"
    /\ idx = 1
    /\ all_qna_data = EmptyMap
    /\ stats = initialize_stats
    /\ file_hashes = {}
    /\ db_map = EmptyMap
    /\ db_hashes = {}
    /\ hashes_to_add = {}
    /\ hashes_to_delete = {}
    /\ calls = <<>>
    /\ reports = <<>>
    /\ outcome = "running"
    /\ store0 = store
    /\ last = "none"
    /\ faults = MaxFaults
    /\ actions = MainStack
    /\ logger_call = NoCall
    /\ other = NoOther
    /\ app = AppInit

\* The files change between two runs: the directory is removed or created,
\* a file is added, removed or rewritten.
EditCorpus ==
    /\ pc = "idle"
    /\ \/ /\ dirExists
          /\ dirExists' = FALSE
          /\ files' = <<>>
       \/ /\ ~dirExists
          /\ dirExists' = TRUE
          /\ files' = <<>>
       \/ /\ dirExists
          /\ \E c \in Corpora :
                /\ c # files
                /\ Len(c) - Len(files) \in {-1, 0, 1}
                /\ \A i \in 1..Len(c) :
                      i < Len(c) /\ i <= Len(files) => c[i] = files[i]
                /\ files' = c
          /\ dirExists' = dirExists
    /\ last' = "none"
    /\ UNCHANGED <<store, pc, idx, all_qna_data, stats, file_hashes, db_map,
                   db_hashes, hashes_to_add, hashes_to_delete, calls, reports,
                   outcome, store0, faults>>
    /\ UNCHANGED <<actions, logger_call, other, app>>

\* The program is started again (main.py): what the finished run left in its
\* variables is gone, and how it ended is kept for the claims about two runs
\* in succession.
NextRun ==
    /\ pc = "done"
    /\ pc' = "idle"
    /\ last' = Ending
    /\ calls' = <<>>
    /\ store0' = store
    /\ RunLocalsReset
    /\ UNCHANGED <<dirExists, files, store, faults>>
    /\ actions' = MainStack
    /\ UNCHANGED <<logger_call, other, app>>

\* synchronize_vector_db is called; _synchronize_qnas begins with
\* setup_llama_index_settings, which raises when a model cannot be configured.
SetupSettings(budgeted) ==
    /\ pc = "idle"
    /\ \E ok \in BOOLEAN :
          /\ Fault(~ok, budgeted)
          /\ calls' = <<Call("setup", IF ok THEN "ok" ELSE "raises")>>
          /\ pc' = IF ok THEN "scan" ELSE "except"
    /\ UNCHANGED <<dirExists, files, store, idx, all_qna_data, stats, file_hashes,
                   db_map, db_hashes, hashes_to_add, hashes_to_delete, reports,
                   outcome, store0, last>>
    /\ actions' = started_and_closed(start(actions, "SYNC").actions, "SETTINGS")
    /\ UNCHANGED <<logger_call, other, app>>

\* A faulty variant: the store is read before the files are gone through.
ScanStartStoreFirst ==
    /\ pc = "scan"
    /\ IF ~dirExists
       THEN reports' = Append(reports, Report("dir_missing"))
       ELSE reports' = reports
    /\ pc' = "init"
    /\ UNCHANGED <<dirExists, files, store, idx, all_qna_data, stats, file_hashes,
                   db_map, db_hashes, hashes_to_add, hashes_to_delete, calls,
                   outcome, store0, last, faults>>
    /\ UNCHANGED <<actions, logger_call, other, app>>

\* _scan_data_dir_for_qna up to its call of _process_all_files
ScanStart ==
    /\ pc = "scan"
    /\ IF ~dirExists
       THEN /\ reports' = Append(reports, Report("dir_missing"))
            /\ pc' = "init"
       ELSE /\ reports' = reports
            /\ pc' = "files"
    /\ UNCHANGED <<dirExists, files, store, idx, all_qna_data, stats, file_hashes,
                   db_map, db_hashes, hashes_to_add, hashes_to_delete, calls,
                   outcome, store0, last, faults>>
    /\ actions' = IF ~dirExists THEN started_and_closed(actions, "SCAN")
                   ELSE start(actions, "SCAN").actions
    /\ UNCHANGED <<logger_call, other, app>>

\* The body of the loop of _process_all_files for the directory entry f:
\* the dictionary, the statistics and the log after it.
process_entry(f, data, st, log) ==
    IF should_skip_file(f)
    THEN [data |-> data, stats |-> st, log |-> log]
    ELSE LET result == process_single_file(f, data)
         IN [data |-> result.data, stats |-> update_stats(st, result),
             log |-> log \o result.log]

\* one turn of the loop of _process_all_files
ProcessFile ==
    /\ pc = "files"
    /\ idx <= Len(files)
    /\ LET after == process_entry(files[idx], all_qna_data, stats, reports)
       IN /\ all_qna_data' = after.data
          /\ stats' = after.stats
          /\ reports' = after.log
    /\ idx' = idx + 1
    /\ UNCHANGED <<dirExists, files, store, pc, file_hashes, db_map, db_hashes,
                   hashes_to_add, hashes_to_delete, calls, outcome, store0, last,
                   faults>>
    /\ UNCHANGED <<actions, logger_call, other, app>>

\* the loop is over: _log_final_stats, and _synchronize_qnas takes the keys
ScanDone ==
    /\ pc = "files"
    /\ idx > Len(files)
    /\ file_hashes' = DOMAIN all_qna_data
    /\ reports' = Append(reports, Report("final_stats"))
    /\ pc' = "init"
    /\ UNCHANGED <<dirExists, files, store, idx, all_qna_data, stats, db_map,
                   db_hashes, hashes_to_add, hashes_to_delete, calls,
                   outcome, store0, last, faults>>
    /\ actions' = close(actions, "SCAN").actions
    /\ UNCHANGED <<logger_call, other, app>>

\* indexing_helpers.initialize_db_and_index: the client, the collection and
\* the index; a failure is logged and raised again.
InitializeDb(budgeted) ==
    /\ pc = "init"
    /\ \E ok \in BOOLEAN :
          /\ Fault(~ok, budgeted)
          /\ calls' = Append(calls, Call("init", IF ok THEN "ok" ELSE "raises"))
          /\ pc' = IF ok THEN "enumerate" ELSE "except"
    /\ UNCHANGED <<dirExists, files, store, idx, all_qna_data, stats, file_hashes,
                   db_map, db_hashes, hashes_to_add, hashes_to_delete, reports,
                   outcome, store0, last>>
    /\ actions' = started_and_closed(actions, "INIT_DB")
    /\ UNCHANGED <<logger_call, other, app>>

\* chroma_utils.get_all_qna_hashes_from_db(collection) in _synchronize_qnas:
\* when count() or get() raises, the error is logged and the empty map is
\* returned.
Enumerate(budgeted) ==
    /\ pc = "enumerate"
    /\ \E ok \in BOOLEAN :
          /\ Fault(~ok, budgeted)
          /\ calls' = Append(calls, Call("enumerate", IF ok THEN "ok" ELSE "raises"))
          /\ actions' = retrieve_actions(actions, store, ok)
          /\ IF ok
             THEN /\ db_map' \in get_all_qna_hashes_from_db(store)
                  /\ reports' = reports
             ELSE /\ db_map' = EmptyMap
                  /\ reports' = Append(reports, Report("enumerate_error"))
    /\ db_hashes' = DOMAIN db_map'
    /\ pc' = "diff"
    /\ UNCHANGED <<dirExists, files, store, idx, all_qna_data, stats, file_hashes,
                   hashes_to_add, hashes_to_delete, outcome, store0, last>>
    /\ UNCHANGED <<logger_call, other, app>>

\* A faulty variant: add_and_delete begins with the insertions.
SyncDiffInsertFirst ==
    /\ pc = "diff"
    /\ hashes_to_add' = diff_to_add(file_hashes, db_hashes)
    /\ hashes_to_delete' = diff_to_delete(file_hashes, db_hashes)
    /\ IF hashes_to_add' = {} /\ hashes_to_delete' = {}
       THEN /\ reports' = Append(reports, Report("no_changes"))
            /\ pc' = "done"
            /\ outcome' = "returned"
            /\ actions' = close(actions, "SYNC").actions
       ELSE /\ reports' = reports
            /\ pc' = "insert"
            /\ outcome' = outcome
            /\ actions' = actions
    /\ UNCHANGED <<dirExists, files, store, idx, all_qna_data, stats, file_hashes,
                   db_map, db_hashes, calls, store0, last, faults>>
    /\ UNCHANGED <<logger_call, other, app>>

\* _sync_db_with_files up to its call of add_and_delete
SyncDiff ==
    /\ pc = "diff"
    /\ hashes_to_add' = diff_to_add(file_hashes, db_hashes)
    /\ hashes_to_delete' = diff_to_delete(file_hashes, db_hashes)
    /\ IF hashes_to_add' = {} /\ hashes_to_delete' = {}
       THEN /\ reports' = Append(reports, Report("no_changes"))
            /\ pc' = "done"
            /\ outcome' = "returned"
            /\ actions' = close(actions, "SYNC").actions
       ELSE /\ reports' = reports
            /\ pc' = "delete"
            /\ outcome' = outcome
            /\ actions' = actions
    /\ UNCHANGED <<dirExists, files, store, idx, all_qna_data, stats, file_hashes,
                   db_map, db_hashes, calls, store0, last, faults>>
    /\ UNCHANGED <<logger_call, other, app>>

\* add_and_delete, first half: delete_documents_by_qna_hash, called when
\* there is something to delete.
DeleteStep(budgeted) ==
    /\ pc = "delete"
    /\ IF hashes_to_delete = {}
       THEN /\ pc' = "insert"
            /\ UNCHANGED <<store, calls, reports, faults>>
            /\ actions' = start(actions, "ADD_DELETE").actions
       ELSE \E res \in DeleteResults :
               LET r == delete_documents_by_qna_hash(store, hashes_to_delete, res)
               IN /\ Fault(res # "ok", budgeted)
                  /\ calls' = IF r.touched THEN Append(calls, Call("delete", res))
                              ELSE calls
                  /\ store' = r.store
                  /\ reports' = reports \o r.log
                  /\ pc' = IF r.raises THEN "except" ELSE "insert"
                  /\ actions' = delete_documents_actions(
                                  start(actions, "ADD_DELETE").actions,
                                  hashes_to_delete, res)
    /\ UNCHANGED <<dirExists, files, idx, all_qna_data, stats, file_hashes, db_map,
                   db_hashes, hashes_to_add, hashes_to_delete, outcome, store0,
                   last>>
    /\ UNCHANGED <<logger_call, other, app>>

\* add_and_delete, second half: prep_for_adding_docs and
\* insert_documents_to_index, which returns False when insert_nodes raises.
InsertStep(budgeted) ==
    /\ pc = "insert"
    /\ IF hashes_to_add = {}
       THEN UNCHANGED <<store, calls, reports, faults>>
       ELSE LET docs == documents_to_insert(hashes_to_add, all_qna_data)
                lost == IF hashes_to_add \subseteq DOMAIN all_qna_data
                        THEN <<>> ELSE <<Report("internal_inconsistency")>>
            IN IF docs = {}
               THEN /\ reports' = (reports \o lost) \o <<Report("no_documents")>>
                    /\ UNCHANGED <<store, calls, faults>>
               ELSE \E ok \in BOOLEAN :
                       /\ Fault(~ok, budgeted)
                       /\ calls' = Append(calls,
                                     Call("insert", IF ok THEN "ok" ELSE "raises"))
                       /\ LET r == insert_documents_to_index(store, docs, ok)
                          IN /\ store' = r.store
                             /\ reports' = IF r.success THEN reports \o lost
                                           ELSE (reports \o lost)
                                                    \o <<Report("insert_failed")>>
    /\ pc' = "verify"
    /\ UNCHANGED <<dirExists, files, idx, all_qna_data, stats, file_hashes, db_map,
                   db_hashes, hashes_to_add, hashes_to_delete, outcome, store0,
                   last>>
    /\ actions' = close(actions, "ADD_DELETE").actions
    /\ UNCHANGED <<logger_call, other, app>>

\* A faulty variant: a mismatch is repaired by deleting what the files lack.
verify_db_sync_repairing(st, expected_hashes, ok) ==
    LET final_qna_hashes_in_db == IF ok THEN StoreKeys(st) ELSE {}
        read == IF ok THEN <<>> ELSE <<Report("enumerate_error")>>
    IN [store |-> {d \in st : d.qna_hash \in expected_hashes \cup {NoHash}},
        raises |-> FALSE,
        log |-> read \o <<Report(IF final_qna_hashes_in_db = expected_hashes
                                 THEN "verify_ok" ELSE "verify_failed")>>]

\* _verify_db_sync: the collection after it, whether it raises, and what it
\* logs; ok is whether the second get_all_qna_hashes_from_db read the
\* collection or caught an exception and returned the empty map.
verify_db_sync(st, expected_hashes, ok) ==
    LET final_qna_hashes_in_db == IF ok THEN StoreKeys(st) ELSE {}
        read == IF ok THEN <<>> ELSE <<Report("enumerate_error")>>
    IN [store |-> st,
        raises |-> FALSE,
        log |-> read \o <<Report(IF final_qna_hashes_in_db = expected_hashes
                                 THEN "verify_ok" ELSE "verify_failed")>>]

\* _sync_db_with_files after add_and_delete: _verify_db_sync, and the return
Verify(budgeted) ==
    /\ pc = "verify"
    /\ \E ok \in BOOLEAN :
          /\ Fault(~ok, budgeted)
          /\ calls' = Append(calls, Call("reread", IF ok THEN "ok" ELSE "raises"))
          /\ actions' = close(retrieve_actions(actions, store, ok), "SYNC").actions
          /\ LET r == verify_db_sync(store, file_hashes, ok)
             IN /\ store' = r.store
                /\ reports' = reports \o r.log
                /\ pc' = IF r.raises THEN "except" ELSE "done"
                /\ outcome' = IF r.raises THEN outcome ELSE "returned"
    /\ UNCHANGED <<dirExists, files, idx, all_qna_data, stats, file_hashes,
                   db_map, db_hashes, hashes_to_add, hashes_to_delete, store0,
                   last>>
    /\ UNCHANGED <<logger_call, other, app>>

\* synchronize_vector_db: except Exception logs at CRITICAL, and the function
\* returns.
SyncExcept ==
    /\ pc = "except"
    /\ reports' = Append(reports, Report("critical"))
    /\ pc' = "done"
    /\ outcome' = "returned"
    /\ UNCHANGED <<dirExists, files, store, idx, all_qna_data, stats, file_hashes,
                   db_map, db_hashes, hashes_to_add, hashes_to_delete, calls,
                   store0, last, faults>>
    /\ actions' = close(actions, "SYNC").actions
    /\ UNCHANGED <<logger_call, other, app>>

\* One run of synchronize_vector_db, from any files and any collection.
Next ==
    \/ SetupSettings(FALSE)
    \/ ScanStart
    \/ ProcessFile
    \/ ScanDone
    \/ InitializeDb(FALSE)
    \/ Enumerate(FALSE)
    \/ SyncDiff
    \/ DeleteStep(FALSE)
    \/ InsertStep(FALSE)
    \/ Verify(FALSE)
    \/ SyncExcept

Spec == Init /\ [][Next]_vars

\* Runs in succession, the files changing or not between them.
NextRuns ==
    \/ EditCorpus
    \/ NextRun
    \/ SetupSettings(FALSE)
    \/ ScanStart
    \/ ProcessFile
    \/ ScanDone
    \/ InitializeDb(FALSE)
    \/ Enumerate(FALSE)
    \/ SyncDiff
    \/ DeleteStep(FALSE)
    \/ InsertStep(FALSE)
    \/ Verify(FALSE)
    \/ SyncExcept

\* the runs in succession start from a collection earlier runs wrote
InitRuns ==
    /\ Init
    /\ store \subseteq ProgramDocs

SpecRuns == InitRuns /\ [][NextRuns]_vars

\* The runs repeated over the same files start from a directory of at most
\* one file, which gives every set of keys the files can stand for.
InitHeal ==
    /\ Init
    /\ Len(files) <= 1

\* Runs repeated over the same files, with at most MaxFaults failing calls.
HealSteps ==
    \/ NextRun
    \/ SetupSettings(TRUE)
    \/ ScanStart
    \/ ScanDone
    \/ InitializeDb(TRUE)
    \/ Enumerate(TRUE)
    \/ SyncDiff
    \/ DeleteStep(TRUE)
    \/ InsertStep(TRUE)
    \/ Verify(TRUE)
    \/ SyncExcept

NextHeal == ProcessFile \/ HealSteps

\* a turn of the loop of _process_all_files, by what it does to idx: the
\* steps of NextHeal that satisfy it are the steps of ProcessFile
ScanTurn == pc = "files" /\ idx <= Len(files) /\ idx' = idx + 1

\* The program is sequential and nothing in it waits: a run that has begun
\* goes on to its end, and the program is started again.  Hence the weak
\* fairness of every step.
SpecHeal ==
    InitHeal /\ [][NextHeal]_vars /\ WF_vars(HealSteps) /\ WF_idx(ScanTurn)

-----------------------------------------------------------------------------
(* The scan alone, over one file whose lines are drawn freely.              *)

\* lines of a file of the scan
MaxLines == 7

\* The lines a file is made of: a blank line, a line that ends with a
\* question mark, a line that does not, and a question between spaces.
ScanLines ==
    {<<" ">>,
     <<"A", "?">>,
     <<"B">>,
     <<" ", "C", "?", " ">>}

ScanTexts == UNION {[1..n -> ScanLines] : n \in 0..MaxLines}

ScanCorpora ==
    {<<[name |-> NameOf(1), isfile |-> TRUE, readable |-> TRUE, lines |-> t]>> :
        t \in ScanTexts}

\* _scan_data_dir_for_qna is entered, the data directory holding one file
InitScan ==
    /\ dirExists = TRUE
    /\ files \in ScanCorpora
    /\ store = {}
    /\ pc = "scan"
    /\ idx = 1
    /\ all_qna_data = EmptyMap
    /\ stats = initialize_stats
    /\ file_hashes = {}
    /\ db_map = EmptyMap
    /\ db_hashes = {}
    /\ hashes_to_add = {}
    /\ hashes_to_delete = {}
    /\ calls = <<Call("setup", "ok")>>
    /\ reports = <<>>
    /\ outcome = "running"
    /\ store0 = store
    /\ last = "none"
    /\ faults = 0
    /\ actions = SyncStack
    /\ logger_call = NoCall
    /\ other = NoOther
    /\ app = AppInit

\* _scan_data_dir_for_qna, until _synchronize_qnas has taken its keys
NextScan ==
    \/ ScanStart
    \/ ProcessFile
    \/ ScanDone

SpecScan == InitScan /\ [][NextScan]_vars

-----------------------------------------------------------------------------
(* The scan alone, over two files of one pair each, the subjects, the       *)
(* questions and the answers drawn from texts that share their characters.  *)

HashSubjects == {Subject, OldSubject}

HashQuestions == {<<"A", "?">>, <<"A", "?", "B", "?">>}

HashAnswers == {<<"B">>, <<"C">>, <<"B", "?", "C">>}

HashTexts ==
    {<<s, q, a>> : s \in HashSubjects, q \in HashQuestions, a \in HashAnswers}

HashCorpora ==
    {[i \in 1..2 |-> [name |-> NameOf(i), isfile |-> TRUE, readable |-> TRUE,
                      lines |-> t[i]]] : t \in [1..2 -> HashTexts]}

\* _scan_data_dir_for_qna is entered, the data directory holding two files
InitHash ==
    /\ dirExists = TRUE
    /\ files \in HashCorpora
    /\ store = {}
    /\ pc = "scan"
    /\ idx = 1
    /\ all_qna_data = EmptyMap
    /\ stats = initialize_stats
    /\ file_hashes = {}
    /\ db_map = EmptyMap
    /\ db_hashes = {}
    /\ hashes_to_add = {}
    /\ hashes_to_delete = {}
    /\ calls = <<Call("setup", "ok")>>
    /\ reports = <<>>
    /\ outcome = "running"
    /\ store0 = store
    /\ last = "none"
    /\ faults = 0
    /\ actions = SyncStack
    /\ logger_call = NoCall
    /\ other = NoOther
    /\ app = AppInit

SpecHash == InitHash /\ [][NextScan]_vars

-----------------------------------------------------------------------------
(* The scan alone, over two directory entries of any kind and name.         *)

\* the endings of the names of the entries
DirEndings ==
    {<<".", "t", "x", "t">>,
     <<".", "T", "X", "T">>,
     <<".", "t", "X", "t">>,
     <<".", "m", "d">>,
     <<"t", "x", "t">>,
     <<".", "t", "x", "t", "b">>}

\* what an entry holds: for a regular file its lines, for a directory the
\* lines of a file inside it
DirTexts == {<<>>, <<Subject, Q1, A1>>, <<Subject, Q2, A2>>}

DirEntries(i) ==
    {[name |-> <<"f">> \o [j \in 1..i |-> "i"] \o e, isfile |-> k,
      readable |-> TRUE, lines |-> t] :
        e \in DirEndings, k \in BOOLEAN, t \in DirTexts}

DirCorpora ==
    {<<a, b>> : a \in DirEntries(1), b \in DirEntries(2)}

\* _scan_data_dir_for_qna is entered, the data directory holding two entries
InitDir ==
    /\ dirExists = TRUE
    /\ files \in DirCorpora
    /\ store = {}
    /\ pc = "scan"
    /\ idx = 1
    /\ all_qna_data = EmptyMap
    /\ stats = initialize_stats
    /\ file_hashes = {}
    /\ db_map = EmptyMap
    /\ db_hashes = {}
    /\ hashes_to_add = {}
    /\ hashes_to_delete = {}
    /\ calls = <<Call("setup", "ok")>>
    /\ reports = <<>>
    /\ outcome = "running"
    /\ store0 = store
    /\ last = "none"
    /\ faults = 0
    /\ actions = SyncStack
    /\ logger_call = NoCall
    /\ other = NoOther
    /\ app = AppInit

SpecDir == InitDir /\ [][NextScan]_vars

-----------------------------------------------------------------------------
(* Two runs of the program at once on one collection, over the same files.  *)
(* Each call of the collection is one step.                                 *)

\* _process_all_files: the dictionary after the entries fs[k], fs[k+1], ...
RECURSIVE process_all_files(_, _, _)
process_all_files(fs, k, data) ==
    IF k > Len(fs) THEN data
    ELSE process_all_files(fs, k + 1,
                           process_entry(fs[k], data, initialize_stats, <<>>).data)

\* _scan_data_dir_for_qna: {} for a missing directory, else the dictionary
\* of the files
scan_data_dir_for_qna(exists, fs) ==
    IF ~exists THEN EmptyMap ELSE process_all_files(fs, 1, EmptyMap)

\* The second run begins: settings, scan of the files, initialize_db_and_index
OtherScan ==
    /\ other.pc = "idle"
    /\ other' = [other EXCEPT
                   !.pc = "enumerate",
                   !.all_qna_data = scan_data_dir_for_qna(dirExists, files),
                   !.file_hashes = DOMAIN scan_data_dir_for_qna(dirExists, files)]
    /\ UNCHANGED <<dirExists, files, store, pc, idx, all_qna_data, stats,
                   file_hashes, db_map, db_hashes, hashes_to_add, hashes_to_delete,
                   calls, reports, outcome, store0, last, faults, actions,
                   logger_call, app>>

\* get_all_qna_hashes_from_db of the second run
OtherEnumerate ==
    /\ other.pc = "enumerate"
    /\ \E m \in get_all_qna_hashes_from_db(store) :
          other' = [other EXCEPT !.pc = "diff", !.db_hashes = DOMAIN m]
    /\ UNCHANGED <<dirExists, files, store, pc, idx, all_qna_data, stats,
                   file_hashes, db_map, db_hashes, hashes_to_add, hashes_to_delete,
                   calls, reports, outcome, store0, last, faults, actions,
                   logger_call, app>>

\* _sync_db_with_files of the second run, up to add_and_delete
OtherSyncDiff ==
    /\ other.pc = "diff"
    /\ LET to_add == diff_to_add(other.file_hashes, other.db_hashes)
           to_delete == diff_to_delete(other.file_hashes, other.db_hashes)
       IN other' = [other EXCEPT
                      !.hashes_to_add = to_add,
                      !.hashes_to_delete = to_delete,
                      !.pc = IF to_add = {} /\ to_delete = {} THEN "done"
                             ELSE "delete"]
    /\ UNCHANGED <<dirExists, files, store, pc, idx, all_qna_data, stats,
                   file_hashes, db_map, db_hashes, hashes_to_add, hashes_to_delete,
                   calls, reports, outcome, store0, last, faults, actions,
                   logger_call, app>>

\* delete_documents_by_qna_hash of the second run
OtherDelete ==
    /\ other.pc = "delete"
    /\ store' = delete_documents_by_qna_hash(store, other.hashes_to_delete, "ok").store
    /\ other' = [other EXCEPT !.pc = "insert"]
    /\ UNCHANGED <<dirExists, files, pc, idx, all_qna_data, stats,
                   file_hashes, db_map, db_hashes, hashes_to_add, hashes_to_delete,
                   calls, reports, outcome, store0, last, faults, actions,
                   logger_call, app>>

\* prep_for_adding_docs and insert_documents_to_index of the second run
OtherInsert ==
    /\ other.pc = "insert"
    /\ store' = insert_documents_to_index(
                    store,
                    documents_to_insert(other.hashes_to_add, other.all_qna_data),
                    TRUE).store
    /\ other' = [other EXCEPT !.pc = "verify"]
    /\ UNCHANGED <<dirExists, files, pc, idx, all_qna_data, stats,
                   file_hashes, db_map, db_hashes, hashes_to_add, hashes_to_delete,
                   calls, reports, outcome, store0, last, faults, actions,
                   logger_call, app>>

\* _verify_db_sync of the second run, which reads and logs
OtherVerify ==
    /\ other.pc = "verify"
    /\ other' = [other EXCEPT !.pc = "done"]
    /\ UNCHANGED <<dirExists, files, store, pc, idx, all_qna_data, stats,
                   file_hashes, db_map, db_hashes, hashes_to_add, hashes_to_delete,
                   calls, reports, outcome, store0, last, faults, actions,
                   logger_call, app>>

\* Both runs start with the same files, of a directory of at most one file,
\* and a collection earlier runs wrote; no call fails.
InitConcurrent ==
    /\ dirExists \in BOOLEAN
    /\ files \in Corpora
    /\ Len(files) <= 1
    /\ ~dirExists => files = <<>>
    /\ store \in SUBSET ProgramDocs
    /\ pc = "idle"
    /\ idx = 1
    /\ all_qna_data = EmptyMap
    /\ stats = initialize_stats
    /\ file_hashes = {}
    /\ db_map = EmptyMap
    /\ db_hashes = {}
    /\ hashes_to_add = {}
    /\ hashes_to_delete = {}
    /\ calls = <<>>
    /\ reports = <<>>
    /\ outcome = "running"
    /\ store0 = store
    /\ last = "none"
    /\ faults = 0
    /\ actions = MainStack
    /\ logger_call = NoCall
    /\ other = [NoOther EXCEPT !.pc = "idle"]
    /\ app = AppInit

NextConcurrent ==
    \/ SetupSettings(TRUE)
    \/ ScanStart
    \/ ProcessFile
    \/ ScanDone
    \/ InitializeDb(TRUE)
    \/ Enumerate(TRUE)
    \/ SyncDiff
    \/ DeleteStep(TRUE)
    \/ InsertStep(TRUE)
    \/ Verify(TRUE)
    \/ OtherScan
    \/ OtherEnumerate
    \/ OtherSyncDiff
    \/ OtherDelete
    \/ OtherInsert
    \/ OtherVerify

SpecConcurrent == InitConcurrent /\ [][NextConcurrent]_vars

-----------------------------------------------------------------------------
(* The two mutating functions of the store adapter, called with any         *)
(* argument, the empty one included, one call after another.                *)

\* calls that reach the collection or the index in a behaviour of SpecAdapter
MaxCalls == 2

\* the collection holds documents earlier runs wrote; no run is under way
InitAdapter ==
    /\ dirExists = TRUE
    /\ files = <<>>
    /\ store \in SUBSET ProgramDocs
    /\ pc = "adapter"
    /\ idx = 1
    /\ all_qna_data = EmptyMap
    /\ stats = initialize_stats
    /\ file_hashes = {}
    /\ db_map = EmptyMap
    /\ db_hashes = {}
    /\ hashes_to_add = {}
    /\ hashes_to_delete = {}
    /\ calls = <<>>
    /\ reports = <<>>
    /\ outcome = "running"
    /\ store0 = store
    /\ last = "none"
    /\ faults = 0
    /\ actions = start(SyncStack, "ADD_DELETE").actions
    /\ logger_call = NoCall
    /\ other = NoOther
    /\ app = AppInit

\* chroma_utils.delete_documents_by_qna_hash(collection, qna_hashes_to_delete)
\* is called and returns or raises; hashes_to_delete is its argument, store0
\* the collection before the call.
AdapterDelete ==
    /\ pc \in {"adapter", "adapter_delete", "adapter_insert"}
    /\ \E qna_hashes_to_delete \in SUBSET {d.qna_hash : d \in ProgramDocs},
          res \in DeleteResults :
          LET r == delete_documents_by_qna_hash(store, qna_hashes_to_delete, res)
          IN /\ r.touched => Len(calls) < MaxCalls
             /\ hashes_to_delete' = qna_hashes_to_delete
             /\ store' = r.store
             /\ calls' = IF r.touched THEN Append(calls, Call("delete", res))
                         ELSE calls
             /\ reports' = reports \o r.log
             /\ outcome' = IF r.raises THEN "raised" ELSE "returned"
             /\ actions' = delete_documents_actions(actions, qna_hashes_to_delete, res)
    /\ store0' = store
    /\ pc' = "adapter_delete"
    /\ UNCHANGED <<dirExists, files, idx, all_qna_data, stats, file_hashes, db_map,
                   db_hashes, hashes_to_add, last, faults>>
    /\ UNCHANGED <<logger_call, other, app>>

\* indexing_helpers.insert_documents_to_index(index, documents) is called and
\* returns its bool; hashes_to_add holds the ids of its argument, store0 the
\* collection before the call.
AdapterInsert ==
    /\ pc \in {"adapter", "adapter_delete", "adapter_insert"}
    /\ \E documents \in SUBSET ProgramDocs, ok \in BOOLEAN :
          LET r == insert_documents_to_index(store, documents, ok)
          IN /\ r.touched => Len(calls) < MaxCalls
             /\ hashes_to_add' = {d.id : d \in documents}
             /\ store' = r.store
             /\ calls' = IF r.touched
                         THEN Append(calls, Call("insert", IF ok THEN "ok" ELSE "raises"))
                         ELSE calls
             /\ reports' = IF r.success THEN reports
                           ELSE Append(reports, Report("insert_raised"))
             /\ outcome' = IF r.success THEN "True" ELSE "False"
    /\ store0' = store
    /\ pc' = "adapter_insert"
    /\ UNCHANGED <<dirExists, files, idx, all_qna_data, stats, file_hashes, db_map,
                   db_hashes, hashes_to_delete, last, faults>>
    /\ UNCHANGED <<actions, logger_call, other, app>>

NextAdapter ==
    \/ AdapterDelete
    \/ AdapterInsert

SpecAdapter == InitAdapter /\ [][NextAdapter]_vars

-----------------------------------------------------------------------------
(* MyLogger alone: start and close called with any action, in any order.    *)

\* open actions on the stack of the logger in a behaviour of SpecLogger
MaxDepth == 3

\* "Synchronize QnAs with Vector DB", "Scan Data Directory for QnAs",
\* "Adding / Deleting"
ActionNames == {"SYNC", "SCAN", "ADD"}

\* MyLogger is constructed: _initialize_logger
InitLogger ==
    /\ dirExists = TRUE
    /\ files = <<>>
    /\ store = {}
    /\ pc = "logger"
    /\ idx = 1
    /\ all_qna_data = EmptyMap
    /\ stats = initialize_stats
    /\ file_hashes = {}
    /\ db_map = EmptyMap
    /\ db_hashes = {}
    /\ hashes_to_add = {}
    /\ hashes_to_delete = {}
    /\ calls = <<>>
    /\ reports = <<>>
    /\ outcome = "running"
    /\ store0 = store
    /\ last = "none"
    /\ faults = 0
    /\ actions = <<>>
    /\ logger_call = NoCall
    /\ other = NoOther
    /\ app = AppInit

\* the action on top of the stack, "" when there is none
Top(stack) == IF stack = <<>> THEN "" ELSE stack[Len(stack)]

\* logger.start(action)
LoggerStart(action) ==
    /\ pc = "logger"
    /\ Len(actions) < MaxDepth
    /\ LET r == start(actions, action)
       IN /\ actions' = r.actions
          /\ logger_call' = [op |-> "start", action |-> action, top |-> Top(actions),
                             returned |-> r.returned, logged |-> r.logged]
    /\ UNCHANGED <<dirExists, files, store, pc, idx, all_qna_data, stats,
                   file_hashes, db_map, db_hashes, hashes_to_add, hashes_to_delete,
                   calls, reports, outcome, store0, last, faults, other,
                   app>>

\* logger.close(action)
LoggerClose(action) ==
    /\ pc = "logger"
    /\ LET r == close(actions, action)
       IN /\ actions' = r.actions
          /\ logger_call' = [op |-> "close", action |-> action, top |-> Top(actions),
                             returned |-> r.returned, logged |-> r.logged]
    /\ UNCHANGED <<dirExists, files, store, pc, idx, all_qna_data, stats,
                   file_hashes, db_map, db_hashes, hashes_to_add, hashes_to_delete,
                   calls, reports, outcome, store0, last, faults, other,
                   app>>

NextLogger ==
    \/ \E action \in ActionNames : LoggerStart(action)
    \/ \E action \in ActionNames : LoggerClose(action)

SpecLogger == InitLogger /\ [][NextLogger]_vars

-----------------------------------------------------------------------------
(* main.py: the synchronization, then the Streamlit application.            *)

\* run_streamlit_app: max_attempts
max_attempts == 20

UnchangedByMain ==
    UNCHANGED <<dirExists, files, store, pc, idx, all_qna_data, stats,
                file_hashes, db_map, db_hashes, hashes_to_add, hashes_to_delete,
                calls, reports, outcome, store0, last, faults, logger_call, other>>

\* A faulty variant: the application is started while the synchronization
\* is under way.
RunStreamlitAppEarly ==
    /\ app.pc = "sync"
    /\ pc # "idle"
    /\ actions' = start(actions, "STREAMLIT").actions
    /\ app' = [app EXCEPT !.pc = "check", !.popen = "started", !.attempt = 1]
    /\ UnchangedByMain

\* synchronize_vector_db has returned: main calls run_streamlit_app, which
\* starts its action and the Streamlit process, and enters its loop
RunStreamlitApp ==
    /\ app.pc = "sync"
    /\ pc = "done"
    /\ actions' = start(actions, "STREAMLIT").actions
    /\ app' = [app EXCEPT !.pc = "check", !.popen = "started", !.attempt = 1]
    /\ UnchangedByMain

\* one turn of the loop: is_streamlit_running starts and closes its action
\* and returns whether the socket could be connected; True leaves the loop,
\* False sleeps and goes on to the next attempt
CheckStreamlit ==
    /\ app.pc = "check"
    /\ app.attempt <= max_attempts
    /\ \E is_streamlit_running \in BOOLEAN :
          app' = IF is_streamlit_running
                 THEN [app EXCEPT !.pc = "browser", !.reachable = TRUE]
                 ELSE [app EXCEPT !.attempt = @ + 1]
    /\ actions' = started_and_closed(actions, "CHECK_STREAMLIT")
    /\ UnchangedByMain

\* A faulty variant: the loop exhausted, the function goes on to the browser.
GiveUpOpening ==
    /\ app.pc = "check"
    /\ app.attempt > max_attempts
    /\ actions' = actions
    /\ app' = [app EXCEPT !.pc = "browser"]
    /\ UnchangedByMain

\* the else of the loop: every attempt failed; the action is closed and the
\* function returns
GiveUp ==
    /\ app.pc = "check"
    /\ app.attempt > max_attempts
    /\ LET r == close(actions, "STREAMLIT")
       IN /\ actions' = r.actions
          /\ app' = [app EXCEPT !.pc = "finally", !.closed = @ + 1,
                                !.popped = r.returned]
    /\ UnchangedByMain

\* after the loop was left by break: webbrowser.open, whose exception is
\* caught, and the close of the action
OpenBrowser ==
    /\ app.pc = "browser"
    /\ \E ok \in BOOLEAN :
          LET r == close(actions, "STREAMLIT")
          IN /\ actions' = r.actions
             /\ app' = [app EXCEPT !.pc = "finally",
                                   !.browser = IF ok THEN "opened" ELSE "raised",
                                   !.closed = @ + 1,
                                   !.popped = r.returned]
    /\ UnchangedByMain

\* the finally clause of main
MainFinally ==
    /\ app.pc = "finally"
    /\ actions' = close(actions, APP_ACTION).actions
    /\ app' = [app EXCEPT !.pc = "exited"]
    /\ UnchangedByMain

\* main is started on a directory of at most one file and a collection of
\* at most one document
InitMain ==
    /\ Init
    /\ Len(files) <= 1
    /\ store \subseteq ProgramDocs
    /\ Cardinality(store) <= 1

MainSteps ==
    \/ RunStreamlitApp
    \/ CheckStreamlit
    \/ GiveUp
    \/ OpenBrowser
    \/ MainFinally

SyncSteps ==
    \/ SetupSettings(TRUE)
    \/ ScanStart
    \/ ScanDone
    \/ InitializeDb(TRUE)
    \/ Enumerate(TRUE)
    \/ SyncDiff
    \/ DeleteStep(TRUE)
    \/ InsertStep(TRUE)
    \/ Verify(TRUE)
    \/ SyncExcept

NextMain == ProcessFile \/ SyncSteps \/ MainSteps

\* main.py is one thread and nothing in it waits for another process: each
\* step that can be taken is taken.
SpecMain ==
    /\ InitMain
    /\ [][NextMain]_vars
    /\ WF_vars(SyncSteps)
    /\ WF_vars(MainSteps)
    /\ WF_idx(ScanTurn)

-----------------------------------------------------------------------------
(* What the claims speak of.                                                *)

\* The records the files scanned so far hold, in scan order: the pairs the
\* parser returns for each eligible file among the first k directory entries.
RECURSIVE ScannedRecords(_)
ScannedRecords(k) ==
    IF k = 0 THEN <<>>
    ELSE LET f == files[k]
             ps == parse_faq_file(f).qna_pairs
         IN ScannedRecords(k - 1)
                \o (IF should_skip_file(f) THEN <<>>
                    ELSE [j \in 1..Len(ps) |->
                             [file |-> f.name, question |-> ps[j][1],
                              answer |-> ps[j][2]]])

ContentId(r) == generate_qna_hash(r.question, r.answer)

\* the position of the first record of recs with the ContentId of recs[i]
FirstSeen(recs, i) ==
    CHOOSE j \in 1..i :
        /\ ContentId(recs[j]) = ContentId(recs[i])
        /\ \A k \in 1..(j - 1) : ContentId(recs[k]) # ContentId(recs[i])

\* the keys of the CorpusSnapshot the files stand for
CorpusKeys ==
    IF dirExists
    THEN {ContentId(ScannedRecords(Len(files))[i]) :
             i \in 1..Len(ScannedRecords(Len(files)))}
    ELSE {}

\* the run has computed its diff
DiffComputed ==
    \/ pc \in {"delete", "insert", "verify"}
    \/ pc \in {"done", "except"} /\ Called(calls, "enumerate")

\* C1 (convergence): when a run has ended and none of its calls failed, the
\* qna_hash keys of the collection are the keys of the CorpusSnapshot,
\* whatever the collection held when the run began.
C1_Convergence ==
    (pc = "done" /\ NoFailure(calls)) =>
        /\ file_hashes = DOMAIN all_qna_data
        /\ StoreKeys(store) = file_hashes

\* a run that succeeded from a collection holding a stale key, lacking a key
\* of the files and sharing one with them
C1_Witness ==
    /\ pc = "done"
    /\ NoFailure(calls)
    /\ Called(calls, "delete")
    /\ Called(calls, "insert")
    /\ StoreKeys(store0) \ file_hashes # {}
    /\ file_hashes \ StoreKeys(store0) # {}
    /\ file_hashes \cap StoreKeys(store0) # {}
    /\ StoreKeys(store) = file_hashes

\* C3 (the diff): once computed, hashes_to_add holds exactly the keys of the
\* files the database map lacks and hashes_to_delete exactly the keys of the
\* database map the files lack.
C3_DiffIsSetDifference ==
    DiffComputed =>
        /\ \A h \in file_hashes \cup db_hashes \cup hashes_to_add \cup hashes_to_delete :
              /\ h \in hashes_to_add <=> (h \in DOMAIN all_qna_data /\ h \notin DOMAIN db_map)
              /\ h \in hashes_to_delete <=> (h \in DOMAIN db_map /\ h \notin DOMAIN all_qna_data)

\* a diff with keys to add, keys to delete and keys to keep
C3_Witness ==
    /\ pc = "delete"
    /\ hashes_to_add # {}
    /\ hashes_to_delete # {}
    /\ file_hashes \cap db_hashes # {}

\* C4 (short-circuit): a run that found the keys of the files equal to the
\* keys of the database, so that nothing is to add and nothing to delete,
\* ends without a delete call and without an insert call, the collection
\* being what it was when the run began.
C4_ShortCircuit ==
    (pc = "done" /\ Called(calls, "enumerate")
        /\ file_hashes \ db_hashes = {} /\ db_hashes \ file_hashes = {}) =>
        /\ hashes_to_add = {}
        /\ hashes_to_delete = {}
        /\ ~Called(calls, "delete")
        /\ ~Called(calls, "insert")
        /\ store = store0

\* a run over a non-empty collection that found nothing to change
C4_Witness ==
    /\ pc = "done"
    /\ Reported(reports, "no_changes")
    /\ file_hashes # {}
    /\ store = store0

DuplicateReports == SelectSeq(reports, LAMBDA r : r.kind = "duplicate")

\* the positions of recs that repeat the ContentId of an earlier position
Rejected(recs) == {i \in 1..Len(recs) : FirstSeen(recs, i) # i}

\* First-writer-wins over the entries scanned so far (idx - 1 of them): each
\* key holds the first record scanned with that ContentId, every later one
\* is counted and reported with its file and the file of the record held.
FirstWriterWins ==
    LET recs == ScannedRecords(idx - 1) IN
    /\ DOMAIN all_qna_data = {ContentId(recs[i]) : i \in 1..Len(recs)}
    /\ \A i \in 1..Len(recs) :
          LET m == all_qna_data[ContentId(recs[i])]
              first == recs[FirstSeen(recs, i)]
          IN /\ m.file_path = first.file
             /\ m.question = first.question
             /\ m.answer = first.answer
    /\ stats.duplicate_qna_hashes = Cardinality(Rejected(recs))
    /\ Len(DuplicateReports) = Cardinality(Rejected(recs))
    /\ \A i \in Rejected(recs) :
          \E n \in 1..Len(DuplicateReports) :
             /\ n = Cardinality({j \in Rejected(recs) : j <= i})
             /\ DuplicateReports[n].qna_hash = ContentId(recs[i])
             /\ DuplicateReports[n].new = recs[i].file
             /\ DuplicateReports[n].existing = recs[FirstSeen(recs, i)].file

\* A step of the scan leaves every record the snapshot holds as it is.
NeverOverwritten ==
    pc = "files" =>
        \A h \in DOMAIN all_qna_data :
            /\ h \in DOMAIN all_qna_data'
            /\ all_qna_data'[h] = all_qna_data[h]

\* Exactly one document is built for each key marked for addition.
OneDocumentPerKey ==
    pc = "insert" =>
        \A h \in hashes_to_add :
            Cardinality({d \in documents_to_insert(hashes_to_add, all_qna_data) :
                            d.qna_hash = h}) = 1

\* C5 (first-writer-wins): a record put in the CorpusSnapshot is never
\* overwritten during the scan; a later record with the same ContentId, from
\* the same file or another, is rejected, counted as a duplicate and reported
\* with both file names; one document per ContentId is built for the store.
C5_FirstWriterWins ==
    /\ [](FirstWriterWins /\ OneDocumentPerKey)
    /\ [][NeverOverwritten]_vars

\* a scan that rejected a record of the file that holds the first one and a
\* record of another file
C5_Witness ==
    /\ pc = "insert"
    /\ \E n \in 1..Len(DuplicateReports) :
          DuplicateReports[n].new = DuplicateReports[n].existing
    /\ \E n \in 1..Len(DuplicateReports) :
          DuplicateReports[n].new # DuplicateReports[n].existing
    /\ hashes_to_add # {}

\* C6, as claimed: with the data directory missing the run applies no
\* deletion and no insertion to the collection.
C6_MissingDirectoryIsFatal ==
    (pc = "done" /\ ~dirExists /\ Reported(reports, "dir_missing")) =>
        /\ file_hashes = {}
        /\ store = store0

\* C7, as claimed: when the initialization of the store fails, no delete and
\* no insert is attempted and the caller of synchronize_vector_db sees the
\* failure.
C7_InitFailurePropagates ==
    (pc = "done" /\ Failed(calls, "init")) =>
        /\ ~Called(calls, "delete")
        /\ ~Called(calls, "insert")
        /\ store = store0
        /\ outcome = "raised"

\* what the code does there: nothing is deleted or inserted, the failure is
\* logged at CRITICAL, and synchronize_vector_db returns to its caller
C7_Witness ==
    /\ pc = "done"
    /\ Failed(calls, "init")
    /\ ~Called(calls, "delete")
    /\ ~Called(calls, "insert")
    /\ store = store0
    /\ Reported(reports, "critical")
    /\ outcome = "returned"

\* C8, as claimed: when reading the identifiers of the store fails, the run
\* inserts no document and deletes none.
C8_EnumerationFailureIsFatal ==
    (pc = "done" /\ Failed(calls, "enumerate")) => store = store0

\* the deletion of this run was applied to the collection
DeletionApplied ==
    \E i \in 1..Len(calls) :
        calls[i].op = "delete" /\ calls[i].res \in {"ok", "recount_raises"}

\* C9 (insert failure): when the insert fails after the deletions were
\* applied, the failure is reported, the insert is called once, and the run
\* ends with the collection it began with less the documents of
\* hashes_to_delete: no stale key and no key of hashes_to_add is present.
C9_InsertFailure ==
    (pc = "done" /\ Failed(calls, "insert") /\ DeletionApplied) =>
        /\ Reported(reports, "insert_failed")
        /\ Cardinality({i \in 1..Len(calls) : calls[i].op = "insert"}) = 1
        /\ store = {d \in store0 : d.qna_hash \notin hashes_to_delete}
        /\ hashes_to_delete # {}
        /\ StoreKeys(store) \cap hashes_to_delete = {}
        /\ StoreKeys(store) \cap hashes_to_add = {}

\* a run whose deletions were applied and whose insert failed
C9_Witness ==
    /\ pc = "done"
    /\ Failed(calls, "insert")
    /\ DeletionApplied
    /\ hashes_to_add # {}
    /\ store # store0

\* C10 (self-healing): a run whose calls succeed, following over the same
\* files a run that a failed delete or insert left inconsistent, ends with
\* the keys of the collection equal to the keys of the files; and with runs
\* repeated and failures that cease, the keys of the collection become equal
\* to the keys of the corpus and remain so.
C10_SelfHealing ==
    /\ []((pc = "done" /\ last = "broken" /\ NoFailure(calls))
             => StoreKeys(store) = file_hashes)
    /\ <>[](StoreKeys(store) = CorpusKeys)

\* a successful run that repaired what the failed run before it had left
C10_Witness ==
    /\ pc = "done"
    /\ last = "broken"
    /\ NoFailure(calls)
    /\ store # store0
    /\ StoreKeys(store) = file_hashes
    /\ file_hashes = CorpusKeys

\* C11, as claimed: a run that reached the computation of the diff reads the
\* collection again afterwards, and reports the warning of a discrepancy
\* exactly when the keys of the collection differ from the keys of the files.
C11_VerificationAfterReconcile ==
    (pc = "done" /\ DiffComputed) =>
        /\ Called(calls, "reread")
        /\ Reported(reports, "verify_failed") <=> StoreKeys(store) # file_hashes

\* what the code does when the first read of the collection failed and the
\* files hold no record: the run ends on "no changes" without a second read
\* and without a warning, the collection holding keys the files lack
C11_Witness ==
    /\ pc = "done"
    /\ Failed(calls, "enumerate")
    /\ Reported(reports, "no_changes")
    /\ ~Called(calls, "reread")
    /\ ~Reported(reports, "verify_failed")
    /\ StoreKeys(store) # file_hashes

\* C12 (a mismatch is only reported): the step of _verify_db_sync that
\* reports a discrepancy leaves the collection as it is, makes no delete and
\* no insert call, raises nothing, and the run returns to its caller without
\* a failure being logged.
C12_MismatchOnlyReported ==
    /\ [][(pc = "verify" /\ Reported(reports', "verify_failed")) =>
             /\ store' = store
             /\ \E res \in {"ok", "raises"} : calls' = Append(calls, Call("reread", res))
             /\ pc' = "done"
             /\ outcome' = "returned"]_vars
    /\ []((pc = "done" /\ Reported(reports, "verify_failed")) =>
             /\ outcome = "returned"
             /\ ~Reported(reports, "critical"))

\* a run that ended on a reported mismatch, the collection still holding a
\* key the files lack
C12_Witness ==
    /\ pc = "done"
    /\ Reported(reports, "verify_failed")
    /\ ~Failed(calls, "reread")
    /\ StoreKeys(store) \ file_hashes # {}
    /\ outcome = "returned"

\* C13 (empty corpus, non-empty store): when the data directory exists and
\* its files hold no record, the diff of a run that read the collection has
\* nothing to add and every key of the collection to delete; and when the
\* calls of the run succeed, the collection is left with no document that
\* carries a qna_hash.
C13_EmptyCorpusDeletesAll ==
    (dirExists /\ ScannedRecords(Len(files)) = <<>>) =>
        /\ (DiffComputed /\ ~Failed(calls, "enumerate")) =>
              /\ hashes_to_add = {}
              /\ hashes_to_delete = StoreKeys(store0)
              /\ hashes_to_delete = db_hashes
        /\ (pc = "done" /\ NoFailure(calls)) =>
              /\ StoreKeys(store) = {}
              /\ \A d \in store : d.qna_hash = NoHash

\* a run over files without a record that emptied a collection of several
\* keys, one of them carried by two documents
C13_Witness ==
    /\ pc = "done"
    /\ NoFailure(calls)
    /\ dirExists
    /\ Len(files) > 0
    /\ ScannedRecords(Len(files)) = <<>>
    /\ Cardinality(StoreKeys(store0)) >= 2
    /\ Cardinality(store0) > Cardinality(StoreKeys(store0))
    /\ Called(calls, "delete")
    /\ ~Called(calls, "insert")
    /\ StoreKeys(store) = {}

\* the non-blank lines of a file, stripped, without the first of them
ContentLines(f) ==
    LET kept == SelectSeq(f.lines, LAMBDA l : \E i \in 1..Len(l) : ~IsSpace(l[i]))
    IN [i \in 1..(Len(kept) - 1) |-> strip(kept[i + 1])]

\* the k-th pair of consecutive content lines
PairAt(content, k) == <<content[2 * k - 1], content[2 * k]>>

\* the question is a line whose last character is the question mark
EndsWithQuestionMark(l) == l # <<>> /\ l[Len(l)] = "?"

\* the number of pairs that precede the first pair whose question does not
\* end with '?' (all the complete pairs when there is none)
ValidPrefix(content) ==
    LET n == Len(content) \div 2
        bad == {k \in 1..n : ~EndsWithQuestionMark(PairAt(content, k)[1])}
    IN IF bad = {} THEN n
       ELSE (CHOOSE k \in bad : \A j \in bad : k <= j) - 1

\* the pairs the claim expects of a file
ExpectedPairs(f) ==
    LET content == ContentLines(f)
    IN [k \in 1..ValidPrefix(content) |-> PairAt(content, k)]

\* C14 (parser truncation): for a file with a subject and at least two
\* content lines, parse_faq_file returns exactly the pairs, in the order of
\* the file, that precede the first pair whose question does not end with
\* '?'; and once the file is scanned, these and no later pair are what the
\* scan counted and what the snapshot holds.
C14_ParserTruncation ==
    \A i \in 1..Len(files) :
        (files[i].readable /\ Len(ContentLines(files[i])) >= 2) =>
            /\ parse_faq_file(files[i]).qna_pairs = ExpectedPairs(files[i])
            /\ (Len(files) = 1 /\ idx > 1) =>
                  /\ stats.total_qna_pairs = Len(ExpectedPairs(files[i]))
                  /\ DOMAIN all_qna_data =
                        {generate_qna_hash(ExpectedPairs(files[i])[k][1],
                                           ExpectedPairs(files[i])[k][2]) :
                            k \in 1..Len(ExpectedPairs(files[i]))}

\* a scanned file of a subject, a valid pair, a pair whose question lacks
\* the '?' and a valid pair after it, which the snapshot does not hold
C14_Witness ==
    /\ pc = "init"
    /\ Len(files) = 1
    /\ LET content == ContentLines(files[1]) IN
          /\ Len(content) = 6
          /\ ValidPrefix(content) = 1
          /\ EndsWithQuestionMark(content[5])
          /\ generate_qna_hash(content[5], content[6]) \notin DOMAIN all_qna_data
          /\ DOMAIN all_qna_data = {generate_qna_hash(content[1], content[2])}
    /\ stats.total_qna_pairs = 1

\* the scan of a directory of one file is over
ScannedOneFile == Len(files) = 1 /\ idx > 1

\* a file of a subject and an odd number of content lines, the question of
\* every complete pair ending with '?'
OddTrailingLine(f) ==
    /\ f.readable
    /\ Len(ContentLines(f)) % 2 = 1
    /\ ValidPrefix(ContentLines(f)) = Len(ContentLines(f)) \div 2

\* no report of the run is at ERROR or above
NoErrorReported == \A i \in 1..Len(reports) : Level(reports[i].kind) \in {"WARNING", "INFO"}

\* C15, as claimed: a file of a subject and an odd number of content lines
\* with valid questions gives all its complete pairs, and the discarded last
\* line is reported with a warning, no error being reported.
C15_OddTrailingLineClaimed ==
    (ScannedOneFile /\ OddTrailingLine(files[1])) =>
        /\ Len(parse_faq_file(files[1]).qna_pairs) = Len(ContentLines(files[1])) \div 2
        /\ parse_faq_file(files[1]).qna_pairs = ExpectedPairs(files[1])
        /\ Reported(reports, "unpaired_line")
        /\ NoErrorReported

\* C15 (odd trailing line), amended: with three or more content lines the
\* parser returns all the complete pairs, the unpaired last line is reported
\* with a warning and no error, and the file counts as processed with its
\* pairs in the snapshot; with a single content line the parser returns no
\* pair, warns that the file has a subject but no pairs and not of the
\* unpaired line, and the scan counts the file among those skipped.
C15_OddTrailingLine ==
    (ScannedOneFile /\ OddTrailingLine(files[1])) =>
        LET content == ContentLines(files[1])
            pairs == parse_faq_file(files[1]).qna_pairs
        IN /\ Len(pairs) = Len(content) \div 2
           /\ pairs = [k \in 1..(Len(content) \div 2) |-> PairAt(content, k)]
           /\ NoErrorReported
           /\ DOMAIN all_qna_data =
                 {generate_qna_hash(pairs[k][1], pairs[k][2]) : k \in 1..Len(pairs)}
           /\ IF Len(content) >= 3
              THEN /\ Reported(reports, "unpaired_line")
                   /\ stats.files_processed = 1
                   /\ stats.files_skipped_error = 0
                   /\ stats.total_qna_pairs = Len(pairs)
              ELSE /\ ~Reported(reports, "unpaired_line")
                   /\ Reported(reports, "subject_no_pairs")
                   /\ stats.files_processed = 0
                   /\ stats.files_skipped_error = 1

\* a scanned file of a subject, two different valid pairs and one line more
C15_Witness ==
    /\ pc = "init"
    /\ ScannedOneFile
    /\ OddTrailingLine(files[1])
    /\ Len(ContentLines(files[1])) = 5
    /\ Cardinality(DOMAIN all_qna_data) = 2
    /\ Reported(reports, "unpaired_line")

\* the lines of a file that hold a character other than white space
NonBlankLines(f) ==
    SelectSeq(f.lines, LAMBDA l : \E i \in 1..Len(l) : ~IsSpace(l[i]))

\* C16 (degenerate files): a file without a non-blank line parses to no
\* subject and no record, a file of one or two non-blank lines parses to its
\* first non-blank line, stripped, as subject and no record; scanned, neither
\* puts a key in the snapshot.
C16_DegenerateFiles ==
    \A i \in 1..Len(files) :
        (files[i].readable /\ Len(NonBlankLines(files[i])) < 3) =>
            /\ parse_faq_file(files[i]).qna_pairs = <<>>
            /\ IF NonBlankLines(files[i]) = <<>>
               THEN parse_faq_file(files[i]).subject = None
               ELSE parse_faq_file(files[i]).subject = strip(NonBlankLines(files[i])[1])
            /\ Len(files) = 1 => DOMAIN all_qna_data = {}

\* a scanned file of a subject and one question, blank lines around them
C16_Witness ==
    /\ pc = "init"
    /\ ScannedOneFile
    /\ Len(files[1].lines) > 3
    /\ Len(NonBlankLines(files[1])) = 2
    /\ validate_question(strip(NonBlankLines(files[1])[2]))
    /\ parse_faq_file(files[1]).subject # None
    /\ DOMAIN all_qna_data = {}
    /\ stats.files_skipped_error = 1

\* the directory entries that cannot be read
Unreadable == {i \in 1..Len(files) : ~files[i].readable}

\* the scan of an existing directory is over
ScanOver == dirExists /\ pc \notin {"idle", "scan", "files"} /\ Called(calls, "setup")
                /\ ~Failed(calls, "setup")

\* the keys of the pairs the readable files hold
ReadableKeys ==
    UNION {{generate_qna_hash(ExpectedPairs(files[j])[k][1],
                              ExpectedPairs(files[j])[k][2]) :
               k \in 1..Len(ExpectedPairs(files[j]))} :
           j \in (1..Len(files)) \ Unreadable}

\* the turn of the scan on an unreadable file: one error is logged, the
\* snapshot is left as it is, the file is counted as skipped and the loop
\* goes on with the next entry
UnreadableTurn ==
    (pc = "files" /\ idx \in Unreadable) =>
        /\ all_qna_data' = all_qna_data
        /\ stats'.files_skipped_error = stats.files_skipped_error + 1
        /\ stats'.files_processed = stats.files_processed
        /\ Len(SelectSeq(reports', LAMBDA r : r.kind = "read_error"))
              = Len(SelectSeq(reports, LAMBDA r : r.kind = "read_error")) + 1
        /\ idx' = idx + 1
        /\ pc' = "files"

\* C17 (per-file error isolation): an unreadable file records one error,
\* contributes no record and is counted as skipped, and the scan goes on:
\* when it is over every directory entry was visited and the snapshot holds
\* the records of all the readable files.
C17_PerFileErrorIsolation ==
    /\ [][UnreadableTurn]_vars
    /\ [](ScanOver =>
             /\ idx = Len(files) + 1
             /\ Len(SelectSeq(reports, LAMBDA r : r.kind = "read_error"))
                   = Cardinality(Unreadable)
             /\ stats.files_skipped_error >= Cardinality(Unreadable)
             /\ DOMAIN all_qna_data = ReadableKeys
             /\ \A h \in DOMAIN all_qna_data :
                   \A i \in Unreadable : all_qna_data[h].file_path # files[i].name)

\* a scan that met an unreadable file first and a file with a pair after it
C17_Witness ==
    /\ pc = "init"
    /\ Len(files) = 2
    /\ Unreadable = {1}
    /\ Reported(reports, "read_error")
    /\ stats.files_skipped_error = 1
    /\ stats.files_processed = 1
    /\ DOMAIN all_qna_data # {}
    /\ \A h \in DOMAIN all_qna_data : all_qna_data[h].file_path = files[2].name

\* the subject a file is parsed with
SubjectOf(i) == parse_faq_file(files[i]).subject

\* C18 (the ContentId depends on the pair alone): at every point of the scan
\* the key of each scanned record is the hash of its question and answer and
\* is in the snapshot, no two keys of the snapshot hold the same question and
\* answer, and a record repeating the question and answer of an earlier one,
\* under another subject or from another file, is reported under that key.
C18_ContentIdOfPairAlone ==
    LET recs == ScannedRecords(idx - 1) IN
    /\ \A i \in 1..Len(recs) :
          generate_qna_hash(recs[i].question, recs[i].answer) \in DOMAIN all_qna_data
    /\ \A h1, h2 \in DOMAIN all_qna_data :
          (all_qna_data[h1].question = all_qna_data[h2].question
              /\ all_qna_data[h1].answer = all_qna_data[h2].answer) => h1 = h2
    /\ \A i, j \in 1..Len(recs) :
          (i < j /\ recs[i].question = recs[j].question
                 /\ recs[i].answer = recs[j].answer) =>
              \E n \in 1..Len(DuplicateReports) :
                 /\ DuplicateReports[n].qna_hash
                       = generate_qna_hash(recs[i].question, recs[i].answer)
                 /\ DuplicateReports[n].new = recs[j].file

\* two files of different subjects hold the same question and answer, and
\* the scan has given them one key
C18_Witness ==
    /\ pc = "init"
    /\ Len(files) = 2
    /\ SubjectOf(1) # SubjectOf(2)
    /\ files[1].name # files[2].name
    /\ Len(ScannedRecords(2)) = 2
    /\ ScannedRecords(2)[1].question = ScannedRecords(2)[2].question
    /\ ScannedRecords(2)[1].answer = ScannedRecords(2)[2].answer
    /\ Cardinality(DOMAIN all_qna_data) = 1
    /\ Len(DuplicateReports) = 1

\* the documents of the collection that carry the qna_hash h
DocumentsOf(st, h) == {d \in st : d.qna_hash = h}

\* C19, as claimed: after a run whose calls all succeeded, whatever the
\* collection held when it began, the collection holds at most one document
\* for each qna_hash.
C19_AtMostOneDocumentPerHash ==
    (pc = "done" /\ NoFailure(calls)) =>
        \A h \in StoreKeys(store) : Cardinality(DocumentsOf(store, h)) <= 1

\* what the code does from a collection with two documents of one qna_hash
\* that the files hold too: the run succeeds and both documents are there
C19_Witness ==
    /\ pc = "done"
    /\ NoFailure(calls)
    /\ \E h \in file_hashes :
          /\ Cardinality(DocumentsOf(store0, h)) = 2
          /\ DocumentsOf(store, h) = DocumentsOf(store0, h)

\* C20, as claimed: a run deletes only documents whose qna_hash is marked
\* for deletion and inserts only documents whose qna_hash is marked for
\* addition, and a document whose qna_hash the files hold too is neither
\* deleted nor inserted again, whatever subject and path its record has now.
C20_MinimalMutation ==
    pc = "done" =>
        /\ \A d \in store0 \ store : d.qna_hash \in hashes_to_delete
        /\ \A d \in store \ store0 : d.qna_hash \in hashes_to_add
        /\ \A d \in store0 :
              d.qna_hash \in DOMAIN all_qna_data =>
                 /\ d \in store
                 /\ d.qna_hash \notin hashes_to_add
                 /\ DocumentsOf(store, d.qna_hash) = DocumentsOf(store0, d.qna_hash)

\* what the code does when the read of the collection failed: a document is
\* inserted for a qna_hash that the collection held already
C20_Witness ==
    /\ pc = "done"
    /\ Failed(calls, "enumerate")
    /\ \E h \in DOMAIN all_qna_data :
          /\ DocumentsOf(store0, h) # {}
          /\ h \in hashes_to_add
          /\ Cardinality(DocumentsOf(store, h)) > Cardinality(DocumentsOf(store0, h))

\* the positions of the calls of this run to the operation op
CallsOf(op) == {i \in 1..Len(calls) : calls[i].op = op}

\* C21 (deletions first): in a run with something to delete, the insert is
\* issued only after the delete call has been made and has returned, and no
\* delete follows an insert of the same run.
C21_DeleteBeforeInsert ==
    /\ [](\A i \in CallsOf("insert") :
             /\ hashes_to_delete # {} => \E j \in CallsOf("delete") : j < i
             /\ \A j \in CallsOf("delete") : j < i)
    /\ [][(CallsOf("insert")' # CallsOf("insert")) =>
             (pc = "insert" /\ (hashes_to_delete # {} => CallsOf("delete") # {}))]_vars

\* a run that deleted and then inserted
C21_Witness ==
    /\ pc = "done"
    /\ hashes_to_delete # {}
    /\ hashes_to_add # {}
    /\ \E j \in CallsOf("delete") : \E i \in CallsOf("insert") :
          j < i /\ calls[j].res = "ok" /\ calls[i].res = "ok"

\* C22, as claimed, in its least demanding reading: on whatever path a run
\* came to its end, the counts gathered by the scan (files processed, files
\* skipped, pairs found) were logged.
C22_SummaryOnEveryPath ==
    pc = "done" => Reported(reports, "final_stats")

\* what the code does with the data directory missing: the run goes to its
\* end, deleting what the collection held, and no count is logged
C22_Witness ==
    /\ pc = "done"
    /\ ~dirExists
    /\ NoFailure(calls)
    /\ Called(calls, "delete")
    /\ ~Reported(reports, "final_stats")

\* the insert of this run was made and returned
InsertSucceeded == \E i \in CallsOf("insert") : calls[i].res = "ok"

\* C23 (the qna_hash of an inserted document): every document a run has put
\* in the collection carries the qna_hash under which its record is keyed in
\* the snapshot, which is the hash of the question and answer of that very
\* record, with the path, subject and question of the record; and after
\* a successful insert every map the enumeration of the collection can return
\* has the keys marked for addition, these being the keys of the documents
\* put in when the diff was computed from a collection that was read.
C23_InsertedDocumentCarriesItsHash ==
    /\ \A d \in store \ store0 :
          /\ d.qna_hash \in DOMAIN all_qna_data
          /\ d.qna_hash \in hashes_to_add
          /\ d.qna_hash = generate_qna_hash(all_qna_data[d.qna_hash].question,
                                            all_qna_data[d.qna_hash].answer)
          /\ d.question = all_qna_data[d.qna_hash].question
          /\ d.subject = all_qna_data[d.qna_hash].subject
          /\ d.file_path = all_qna_data[d.qna_hash].file_path
    /\ InsertSucceeded =>
          /\ \A m \in get_all_qna_hashes_from_db(store) : hashes_to_add \subseteq DOMAIN m
          /\ ~Failed(calls, "enumerate") =>
                {d.qna_hash : d \in store \ store0} = hashes_to_add

\* a run that inserted the documents of two records
C23_Witness ==
    /\ pc = "done"
    /\ NoFailure(calls)
    /\ InsertSucceeded
    /\ Cardinality(hashes_to_add) = 2
    /\ Cardinality(store \ store0) = 2
    /\ StoreKeys(store \ store0) = hashes_to_add

\* a regular file whose name ends with ".txt" in any mix of cases
Eligible(f) ==
    /\ f.isfile
    /\ Len(f.name) >= 4
    /\ f.name[Len(f.name) - 3] = "."
    /\ f.name[Len(f.name) - 2] \in {"t", "T"}
    /\ f.name[Len(f.name) - 1] \in {"x", "X"}
    /\ f.name[Len(f.name)] \in {"t", "T"}

\* the entries visited so far that are eligible
EligibleVisited == {i \in 1..(idx - 1) : Eligible(files[i])}

\* C24 (eligible entries): at every point of the scan the entries parsed
\* are the regular files whose name ends with ".txt" whatever the case: each
\* of them is counted as processed when it holds a pair and as skipped when
\* it holds none, the snapshot holds the pairs of these files and of no
\* other entry, and a directory or a file of another name gives no record
\* and is not counted.
C24_EligibleEntries ==
    (pc \in {"files", "init"} /\ dirExists) =>
        /\ stats.files_processed =
              Cardinality({i \in EligibleVisited : Len(ExpectedPairs(files[i])) > 0})
        /\ stats.files_skipped_error =
              Cardinality({i \in EligibleVisited : Len(ExpectedPairs(files[i])) = 0})
        /\ DOMAIN all_qna_data =
              UNION {{generate_qna_hash(ExpectedPairs(files[i])[k][1],
                                        ExpectedPairs(files[i])[k][2]) :
                         k \in 1..Len(ExpectedPairs(files[i]))} :
                     i \in EligibleVisited}
        /\ \A h \in DOMAIN all_qna_data :
              \E i \in EligibleVisited : all_qna_data[h].file_path = files[i].name

\* a scan over a directory whose name ends with ".txt", holding a pair, and
\* a regular file with a pair whose name ends in upper case
C24_Witness ==
    /\ pc = "init"
    /\ Len(files) = 2
    /\ ~files[1].isfile
    /\ endswith(files[1].name, <<".", "t", "x", "t">>)
    /\ Len(ExpectedPairs(files[1])) = 1
    /\ files[2].isfile
    /\ endswith(files[2].name, <<".", "T", "X", "T">>)
    /\ Len(ExpectedPairs(files[2])) = 1
    /\ ExpectedPairs(files[1]) # ExpectedPairs(files[2])
    /\ stats.files_processed = 1
    /\ stats.files_skipped_error = 0
    /\ Cardinality(DOMAIN all_qna_data) = 1

\* C25 (empty input): delete_documents_by_qna_hash called with the empty set
\* and insert_documents_to_index called with no document leave the
\* collection as it is, make no call to the collection or the index, log no
\* error and return, the insert returning True.
C25_EmptyInputIsNoOp ==
    /\ [][(pc' = "adapter_delete" /\ hashes_to_delete' = {}) =>
             /\ store' = store
             /\ calls' = calls
             /\ reports' = reports
             /\ outcome' = "returned"]_vars
    /\ [][(pc' = "adapter_insert" /\ hashes_to_add' = {}) =>
             /\ store' = store
             /\ calls' = calls
             /\ reports' = reports
             /\ outcome' = "True"]_vars

\* the insert was called with no document on a collection that holds
\* documents, after a call that had changed it, and returned True
C25_Witness ==
    /\ pc = "adapter_insert"
    /\ hashes_to_add = {}
    /\ hashes_to_delete = {}
    /\ Called(calls, "delete")
    /\ store # {}
    /\ store = store0
    /\ outcome = "True"

\* the bytes of a record that are digested: those of the question and then,
\* with nothing between, those of the answer
Stream(r) == r.question \o r.answer

C27_CloseOnlyTheGivenAction ==
    (logger_call.op = "close" /\ logger_call.top # ""
        /\ logger_call.action # logger_call.top) =>
        /\ logger_call.logged = "warning_mismatch"
        /\ logger_call.returned = "None"

\* what the code does: close("SCAN") with "SYNC" on top of "SCAN" pops
\* "SYNC", logs it as closed and returns it
C27_Witness ==
    /\ logger_call.op = "close"
    /\ logger_call.action = "SCAN"
    /\ logger_call.top = "SYNC"
    /\ logger_call.returned = "SYNC"
    /\ logger_call.logged = "info_close"
    /\ actions = <<"SCAN">>

\* C28 (the two sets of the diff): once the diff is computed, hashes_to_add
\* and hashes_to_delete have no key in common, hashes_to_add has no key of
\* the database map, hashes_to_delete has no key of the files, and every key
\* of hashes_to_add is a key of the snapshot of the files; one document is
\* built for each key to add and no internal inconsistency is ever logged.
C28_DiffSetsDisjoint ==
    /\ DiffComputed =>
          /\ hashes_to_add \cap hashes_to_delete = {}
          /\ hashes_to_add \cap DOMAIN db_map = {}
          /\ hashes_to_delete \cap DOMAIN all_qna_data = {}
          /\ hashes_to_add \subseteq DOMAIN all_qna_data
          /\ Cardinality(documents_to_insert(hashes_to_add, all_qna_data))
                = Cardinality(hashes_to_add)
          /\ {d.qna_hash : d \in documents_to_insert(hashes_to_add, all_qna_data)}
                = hashes_to_add
    /\ ~Reported(reports, "internal_inconsistency")
    /\ ~Reported(reports, "no_documents")

\* a run with a key to add, a key to delete and a key to keep
C28_Witness ==
    /\ pc = "verify"
    /\ Cardinality(hashes_to_add) = 1
    /\ hashes_to_delete # {}
    /\ DOMAIN db_map \cap DOMAIN all_qna_data # {}
    /\ InsertSucceeded

\* the scan of the files has come to its end and its keys were taken
ScanComplete ==
    /\ pc \notin {"idle", "scan", "files"}
    /\ dirExists => (idx = Len(files) + 1 /\ file_hashes = DOMAIN all_qna_data)

\* C29 (the order of the steps): the store is initialized and enumerated
\* only when the scan is complete, a delete or an insert is issued only
\* after the enumeration, the re-read only after every delete and insert of
\* the run, and the collection changes only in the delete and insert steps,
\* both snapshots being complete.
C29_StepOrdering ==
    /\ []((Called(calls, "init") \/ Called(calls, "enumerate")) => ScanComplete)
    /\ [](\A i \in CallsOf("delete") \cup CallsOf("insert") :
             /\ \E j \in CallsOf("enumerate") : j < i
             /\ \A k \in CallsOf("reread") : i < k)
    /\ [](Cardinality(CallsOf("enumerate")) <= 1 /\ Cardinality(CallsOf("reread")) <= 1)
    /\ [][store' # store =>
             /\ pc \in {"delete", "insert"}
             /\ ScanComplete
             /\ Called(calls, "enumerate")
             /\ ~Called(calls, "reread")]_vars

\* a run over files with records that made every call, in order
C29_Witness ==
    /\ pc = "done"
    /\ Len(files) = 2
    /\ [i \in 1..Len(calls) |-> calls[i].op]
          = <<"setup", "init", "enumerate", "delete", "insert", "reread">>
    /\ NoFailure(calls)
    /\ file_hashes # {}

\* the keys a failed delete left in the collection
Undeleted == hashes_to_delete \cap StoreKeys(store)

\* C30 (a failing delete): when the call that deletes has failed, the
\* failure is reported and the run is not aborted: the documents of
\* hashes_to_add are still handed to the index, the collection is re-read,
\* and the keys left undeleted are reported as a discrepancy.
C30_DeleteFailureTolerated ==
    (pc = "done" /\ Failed(calls, "delete")) =>
        /\ Reported(reports, "delete_error")
        /\ ~Reported(reports, "critical")
        /\ documents_to_insert(hashes_to_add, all_qna_data) # {}
              => Called(calls, "insert")
        /\ Called(calls, "reread")
        /\ Undeleted # {} => Reported(reports, "verify_failed")

\* what the code does when the count taken before the delete raises: the
\* run ends in the handler of synchronize_vector_db, with documents to add
\* never handed to the index and the collection never re-read
C30_Witness ==
    /\ pc = "done"
    /\ \E i \in CallsOf("delete") : calls[i].res = "count_raises"
    /\ documents_to_insert(hashes_to_add, all_qna_data) # {}
    /\ Undeleted # {}
    /\ ~Called(calls, "insert")
    /\ ~Called(calls, "reread")
    /\ Reported(reports, "critical")
    /\ ~Reported(reports, "verify_failed")

\* the run is between the start and the close of synchronize_vector_db
InRun == pc \notin {"idle", "done"}

\* C31 (the stack of the logger is balanced): while synchronize_vector_db
\* runs, its own action and the action of main stay open below whatever the
\* functions it calls start and close, and when it has returned the stack
\* is the stack it was called with.
C31_LoggerBalance ==
    /\ InRun => Len(actions) >= 2 /\ SubSeq(actions, 1, 2) = SyncStack
    /\ pc = "done" => actions = MainStack

\* what the code does with an empty collection and records to add, no call
\* failing: the second close of get_all_qna_hashes_from_db has closed the
\* action of synchronize_vector_db, whose own close then closes the action
\* of main
C31_Witness ==
    /\ pc = "done"
    /\ store0 = {}
    /\ NoFailure(calls)
    /\ Called(calls, "insert")
    /\ Called(calls, "reread")
    /\ actions = <<>>

\* the record r is held in the dictionary of the scan, question and answer
Represented(r) ==
    \E h \in DOMAIN all_qna_data :
        /\ all_qna_data[h].question = r.question
        /\ all_qna_data[h].answer = r.answer

\* the positions of recs whose question and answer an earlier position has
Repeated(recs) ==
    {i \in 1..Len(recs) :
        \E j \in 1..(i - 1) : /\ recs[j].question = recs[i].question
                              /\ recs[j].answer = recs[i].answer}

\* C32 (distinct pairs are kept apart): every pair scanned so far is held in
\* the dictionary of the scan with its own question and its own answer, and
\* the records rejected as duplicates are as many as those whose question
\* and answer both repeat an earlier record.
C32_DistinctPairsRepresented ==
    LET recs == ScannedRecords(idx - 1) IN
    /\ \A i \in 1..Len(recs) : Represented(recs[i])
    /\ Len(DuplicateReports) = Cardinality(Repeated(recs))

\* what the code does with the pair ('A?', 'B?C') in one file and the pair
\* ('A?B?', 'C') in the next: one key, the second record reported as a
\* duplicate of the first
C32_Witness ==
    LET recs == ScannedRecords(Len(files)) IN
    /\ pc = "init"
    /\ Len(recs) = 2
    /\ recs[1].question = <<"A", "?">> /\ recs[1].answer = <<"B", "?", "C">>
    /\ recs[2].question = <<"A", "?", "B", "?">> /\ recs[2].answer = <<"C">>
    /\ Cardinality(DOMAIN all_qna_data) = 1
    /\ ~Represented(recs[2])
    /\ Len(DuplicateReports) = 1
    /\ DuplicateReports[1].new = recs[2].file

\* the eligible entries visited so far of which at least one pair was parsed
WithPairs == {i \in EligibleVisited : parse_faq_file(files[i]).qna_pairs # <<>>}

\* C33 (the statistics of the scan agree): in the scan of an existing
\* directory and after it, total_qna_pairs is the number of keys held plus
\* duplicate_qna_hashes, files_processed plus files_skipped_error is the
\* number of eligible files visited, and files_processed counts the files
\* of which at least one pair was parsed.
C33_StatsConsistent ==
    (dirExists /\ pc \notin {"idle", "scan"} /\ ~Failed(calls, "setup")) =>
        /\ stats.total_qna_pairs
              = Cardinality(DOMAIN all_qna_data) + stats.duplicate_qna_hashes
        /\ stats.total_qna_pairs = Len(ScannedRecords(idx - 1))
        /\ stats.files_processed + stats.files_skipped_error
              = Cardinality(EligibleVisited)
        /\ stats.files_processed = Cardinality(WithPairs)

\* a finished scan of a file that holds the same pair twice and of a file
\* that holds no pair
C33_Witness ==
    /\ pc = "init"
    /\ dirExists
    /\ Len(files) = 2
    /\ stats.total_qna_pairs = 2
    /\ stats.duplicate_qna_hashes = 1
    /\ Cardinality(DOMAIN all_qna_data) = 1
    /\ stats.files_processed = 1
    /\ stats.files_skipped_error = 1

\* the documents of the collection whose metadata carries no qna_hash
Hashless(st) == {d \in st : d.qna_hash = NoHash}

\* C34 (a document without qna_hash is invisible): it is under no key of
\* the map read from the collection and in no set of hashes to delete, no
\* step of any run adds, removes or alters such a document, and a re-read
\* that finds the keys of the files reports success whether or not such
\* documents are stored.
C34_HashlessInvisible ==
    /\ [](/\ NoHash \notin DOMAIN db_map
          /\ NoHash \notin db_hashes
          /\ NoHash \notin hashes_to_delete)
    /\ [][Hashless(store') = Hashless(store)]_vars
    /\ []((pc = "done" /\ Called(calls, "reread") /\ ~Failed(calls, "reread")
              /\ StoreKeys(store) = file_hashes)
             => Reported(reports, "verify_ok"))

\* a run that repaired what a failed run had left, deleting and reporting
\* success, with a document without qna_hash stored before and after
C34_Witness ==
    /\ pc = "done"
    /\ last = "broken"
    /\ NoFailure(calls)
    /\ Called(calls, "delete")
    /\ Hashless(store) # {}
    /\ Hashless(store) = Hashless(store0)
    /\ Reported(reports, "verify_ok")

\* C35 (two runs at once): when two runs over the same files, interleaved
\* call by call on one collection, have both ended and no call failed, the
\* qna_hash keys of the collection are the keys of the files and each key is
\* carried by one document.
C35_ConcurrentRunsConverge ==
    (pc = "done" /\ other.pc = "done") =>
        /\ StoreKeys(store) = CorpusKeys
        /\ \A h \in StoreKeys(store) : Cardinality(DocumentsOf(store, h)) = 1

\* both runs read the collection before either changed it, and both then
\* deleted and inserted the same keys
C35_Witness ==
    /\ pc = "done"
    /\ other.pc = "done"
    /\ hashes_to_add # {}
    /\ hashes_to_delete # {}
    /\ other.hashes_to_add = hashes_to_add
    /\ other.hashes_to_delete = hashes_to_delete
    /\ Cardinality(StoreKeys(store)) = 2

\* C36 (the application after the synchronization): the Streamlit process
\* is started only when synchronize_vector_db has returned; a main that has
\* ended has started it, whether the synchronization ended in its handler of
\* exceptions or not; and in every execution it is started.
C36_AppAfterSync ==
    /\ [](app.popen # "none" => pc = "done" /\ outcome = "returned")
    /\ [](app.pc = "exited" => app.popen = "started")
    /\ <>(app.popen = "started")

\* the application started after a synchronization that failed and was
\* logged at CRITICAL
C36_Witness ==
    /\ app.popen = "started"
    /\ pc = "done"
    /\ Reported(reports, "critical")
    /\ Failed(calls, "init")

\* the checks of the server made so far
Checks == IF app.reachable THEN app.attempt
          ELSE IF app.attempt = 0 THEN 0 ELSE app.attempt - 1

\* run_streamlit_app has returned
Returned == app.pc \in {"finally", "exited"}

\* C37 (run_streamlit_app ends): at most max_attempts checks are made and
\* none after one that found the server; the browser is opened only after a
\* check that found the server; when every check failed the function
\* returns with all of them made and the browser not opened; on either path
\* it closes once, and the action closed is its own; and it does return.
C37_StreamlitLoopEnds ==
    /\ [](Checks <= max_attempts)
    /\ [](app.reachable => app.pc # "check")
    /\ [](app.browser # "none" => app.reachable)
    /\ []((Returned /\ ~app.reachable)
             => Checks = max_attempts /\ app.browser = "none")
    /\ [](Returned => app.closed = 1 /\ app.popped = "STREAMLIT")
    /\ [](~Returned => app.closed = 0)
    /\ <>Returned

\* main has ended after max_attempts checks that all failed
C37_Witness ==
    /\ app.pc = "exited"
    /\ ~app.reachable
    /\ Checks = max_attempts
    /\ app.browser = "none"
    /\ app.closed = 1

====
